---- MODULE Spec2Model ----
(***************************************************************************)
(* Model of the external-directory resolver of review-agent:               *)
(* src/src/mcp_server/taberogu.py and src/src/mcp_server/utils_normalize.py *)
(*                                                                         *)
(* A string is a sequence of characters and a character is a TLA+ string.  *)
(* A non-ASCII character is written by name: "FW(" and "FW)" are the       *)
(* full-width round brackets U+FF08 and U+FF09, "LENT(" and "LENT)" the    *)
(* lenticular brackets U+3010 and U+3011, "IDSP" the ideographic space     *)
(* U+3000, and "HON" "TEN" "BETSU" "KAN" "NISHI" "KUCHI" "HIGASHI" the     *)
(* kanji of the branch suffixes that norm_jp removes.                      *)
(*                                                                         *)
(* A float is a fixed-point integer in which 1.0 is Unit; every product    *)
(* and sum the code forms on the modelled inputs is exact in it.           *)
(* An optional value is <<>> (None) or <<v>>.                              *)
(***************************************************************************)
EXTENDS Integers, Sequences, FiniteSets, TLC

None == <<>>
Some(v) == <<v>>

\* 1.0 in fixed point.
Unit == 100000

Min(a, b) == IF a <= b THEN a ELSE b
Max(a, b) == IF a >= b THEN a ELSE b

(***************************************************************************)
(* utils_normalize.norm_jp                                                 *)
(***************************************************************************)

\* unicodedata.normalize("NFKC", .) on one character of the modelled alphabet:
\* full-width brackets and the ideographic space have ASCII compatibility
\* forms, every other modelled character is its own normal form.
NFKCChar(ch) ==
    CASE ch = "FW(" -> "("
      [] ch = "FW)" -> ")"
      [] ch = "IDSP" -> " "
      [] OTHER -> ch

NFKC(s) == [i \in 1..Len(s) |-> NFKCChar(s[i])]

\* Characters matched by \s.
WhiteSpace == {" ", "IDSP"}

\* The character class of the re.sub in norm_jp.
StripClass == {"FW(", "FW)", "(", ")", "[", "]", "LENT(", "LENT)"} \cup WhiteSpace

RECURSIVE StripChars(_)
StripChars(s) ==
    IF s = <<>> THEN <<>>
    ELSE IF Head(s) \in StripClass THEN StripChars(Tail(s))
    ELSE <<Head(s)>> \o StripChars(Tail(s))

StartsWith(s, p) == Len(s) >= Len(p) /\ SubSeq(s, 1, Len(p)) = p

\* str.replace(tok, ""): one left-to-right pass over non-overlapping matches.
RECURSIVE Replace(_, _)
Replace(s, tok) ==
    IF s = <<>> THEN <<>>
    ELSE IF StartsWith(s, tok) THEN Replace(SubSeq(s, Len(tok) + 1, Len(s)), tok)
    ELSE <<Head(s)>> \o Replace(Tail(s), tok)

HonTen == <<"HON", "TEN">>
Bekkan == <<"BETSU", "KAN">>
NishiguchiTen == <<"NISHI", "KUCHI", "TEN">>
HigashiguchiTen == <<"HIGASHI", "KUCHI", "TEN">>

\* norm_jp without the replace of the annex suffix.
norm_jp_KeepsBekkan(s) ==
    Replace(Replace(Replace(StripChars(NFKC(s)), HonTen), NishiguchiTen),
            HigashiguchiTen)

\* Every caller passes a string, so "s or ''" is s.
norm_jp(s) ==
    LET s1 == NFKC(s)
        s2 == StripChars(s1)
    IN  Replace(Replace(Replace(Replace(s2, HonTen), Bekkan), NishiguchiTen),
                HigashiguchiTen)

(***************************************************************************)
(* taberogu.score_candidate                                                *)
(***************************************************************************)

\* Python's "a in b" on strings.
IsSubstr(a, b) ==
    \E i \in 0..(Len(b) - Len(a)) : SubSeq(b, i + 1, i + Len(a)) = a

\* str.split(): maximal runs of non-whitespace characters.
RECURSIVE SplitFrom(_, _)
SplitFrom(s, cur) ==
    IF s = <<>> THEN (IF cur = <<>> THEN <<>> ELSE <<cur>>)
    ELSE IF Head(s) \in WhiteSpace
         THEN (IF cur = <<>> THEN <<>> ELSE <<cur>>) \o SplitFrom(Tail(s), <<>>)
         ELSE SplitFrom(Tail(s), Append(cur, Head(s)))

Split(s) == SplitFrom(s, <<>>)

Range(f) == {f[i] : i \in DOMAIN f}

Take(s, n) == SubSeq(s, 1, Min(n, Len(s)))

\* Terms longer than minLen characters, as the list comprehensions keep them.
TermsLongerThan(s, minLen) == SelectSeq(Split(s), LAMBDA w : Len(w) > minLen)

\* The else branch (lines 131-140): term-overlap fallback.
TermOverlapTier(norm_candidate, norm_search) ==
    LET search_terms == TermsLongerThan(norm_search, 1)
        candidate_terms == TermsLongerThan(norm_candidate, 1)
        overlap == Cardinality(Range(search_terms) \cap Range(candidate_terms))
    IN  IF overlap > 0
        THEN (4 * Unit) \div 10
             + (overlap * ((3 * Unit) \div 10))
               \div Max(Len(search_terms), Len(candidate_terms))
        ELSE 0

\* n_sim of score_candidate (lines 107-140), in fixed point.
NameSimilarity(cand_name, name) ==
    LET norm_candidate == norm_jp(cand_name)
        norm_search == norm_jp(name)
    IN  IF norm_candidate = norm_search THEN Unit
        ELSE IF IsSubstr(norm_candidate, norm_search)
                \/ IsSubstr(norm_search, norm_candidate) THEN (9 * Unit) \div 10
        ELSE IF /\ Len(norm_candidate) >= 4
                /\ Len(norm_search) >= 4
                /\ Take(norm_candidate, 4) = Take(norm_search, 4)
             THEN (7 * Unit) \div 10
        ELSE IF \E w \in Range(TermsLongerThan(norm_search, 2)) :
                    IsSubstr(w, norm_candidate)
             THEN (6 * Unit) \div 10
        ELSE IF \E i \in 1..Len(norm_search) :
                    /\ Len(<<norm_search[i]>>) > 1
                    /\ IsSubstr(<<norm_search[i]>>, norm_candidate)
             THEN (3 * Unit) \div 10
        ELSE TermOverlapTier(norm_candidate, norm_search)

\* Line 143: c.get("rating", 0) >= 3.4.  Every candidate built by
\* search_candidates has the key "rating", so the default 0 is never used and
\* a candidate without an on-page rating compares None with a float, which
\* raises TypeError.
RatingBonusRaises(c) == c.rating = None

RatingThreshold == (34 * Unit) \div 10

\* The bonus with > in place of >=.
RatingBonus_Strict(c) == IF c.rating[1] > RatingThreshold THEN (3 * Unit) \div 10 ELSE 0

RatingBonus(c) == IF c.rating[1] >= RatingThreshold THEN (3 * Unit) \div 10 ELSE 0

\* score_candidate: [raised |-> TRUE] when the call raises, else the score.
score_candidate(c, name) ==
    IF RatingBonusRaises(c)
    THEN [raised |-> TRUE, score |-> 0]
    ELSE [raised |-> FALSE,
          score |-> (7 * NameSimilarity(c.name, name)) \div 10 + RatingBonus(c)]

(***************************************************************************)
(* taberogu.search_candidates                                              *)
(***************************************************************************)

IsDigit(ch) == ch \in {"0", "1", "2", "3", "4", "5", "6", "7", "8", "9"}

DigitVal(ch) ==
    CASE ch = "0" -> 0 [] ch = "1" -> 1 [] ch = "2" -> 2 [] ch = "3" -> 3
      [] ch = "4" -> 4 [] ch = "5" -> 5 [] ch = "6" -> 6 [] ch = "7" -> 7
      [] ch = "8" -> 8 [] ch = "9" -> 9

RECURSIVE Pow10(_)
Pow10(n) == IF n = 0 THEN 1 ELSE 10 * Pow10(n - 1)

\* float(text) on texts made of digits, "." and a sign: the text parses when,
\* after an optional sign, it holds at least one digit and at most one ".".
Unsigned(t) == IF t # <<>> /\ Head(t) \in {"-", "+"} THEN Tail(t) ELSE t

FloatParses(t) ==
    LET u == Unsigned(t)
    IN  /\ \A i \in 1..Len(u) : IsDigit(u[i]) \/ u[i] = "."
        /\ Cardinality({i \in 1..Len(u) : u[i] = "."}) <= 1
        /\ \E i \in 1..Len(u) : IsDigit(u[i])

RECURSIVE IntPart(_, _)
IntPart(u, acc) ==
    IF u = <<>> \/ Head(u) = "." THEN acc
    ELSE IntPart(Tail(u), 10 * acc + DigitVal(Head(u)))

RECURSIVE FracPart(_, _)
FracPart(u, k) ==
    IF u = <<>> THEN 0
    ELSE (DigitVal(Head(u)) * Unit) \div Pow10(k) + FracPart(Tail(u), k + 1)

FloatValue(t) ==
    LET u == Unsigned(t)
        dots == {i \in 1..Len(u) : u[i] = "."}
        frac == IF dots = {} THEN <<>>
                ELSE SubSeq(u, (CHOOSE i \in dots : TRUE) + 1, Len(u))
        mag == IntPart(u, 0) * Unit + FracPart(frac, 1)
    IN  IF t # <<>> /\ Head(t) = "-" THEN 0 - mag ELSE mag

\* Lines 72-78: rating stays None without the span or when float() raises.
ParseRating(rv) ==
    IF rv = None THEN None
    ELSE IF FloatParses(rv[1]) THEN Some(FloatValue(rv[1]))
    ELSE None

TabelogBase ==
    <<"h", "t", "t", "p", "s", ":", "/", "/", "t", "a", "b", "e", "l", "o", "g",
      ".", "c", "o", "m">>

\* Lines 81-83.
AbsoluteUrl(href) ==
    IF StartsWith(href, <<"h", "t", "t", "p">>) THEN href ELSE TabelogBase \o href

\* blocks[:10]
BlockLimit == 10

\* Lines 66-87: one dict per block that has the name anchor.
RECURSIVE ParseBlocks(_)
ParseBlocks(blocks) ==
    IF blocks = <<>> THEN <<>>
    ELSE LET b == Head(blocks)
         IN  IF ~b.anchor THEN ParseBlocks(Tail(blocks))
             ELSE <<[url |-> AbsoluteUrl(b.href),
                     name |-> b.nm,
                     rating |-> ParseRating(b.rv)]>> \o ParseBlocks(Tail(blocks))

\* search_candidates on a response of the directory (lines 57-102): the
\* request raising (timeout, connection error), a non-200 status and a failure
\* while parsing all give the empty list.
search_candidates(resp) ==
    IF resp.kind = "page" THEN ParseBlocks(Take(resp.blocks, BlockLimit))
    ELSE <<>>

(***************************************************************************)
(* taberogu.resolve_entity                                                 *)
(***************************************************************************)

ResolveOut(status, best_url, candidates, confidence, retryable, provenance) ==
    [status |-> status, best_url |-> best_url, candidates |-> candidates,
     confidence |-> confidence, retryable |-> retryable,
     provenance |-> provenance]

\* Lines 163-164.
ScoreAll(cs, nm) ==
    [i \in 1..Len(cs) |->
        [url |-> cs[i].url, name |-> cs[i].name, rating |-> cs[i].rating,
         score |-> score_candidate(cs[i], nm).score]]

ScoringRaises(cs, nm) == \E i \in 1..Len(cs) : score_candidate(cs[i], nm).raised

\* list.sort(key=score, reverse=True): stable, descending.
RECURSIVE InsertDesc(_, _)
InsertDesc(c, sorted) ==
    IF sorted = <<>> THEN <<c>>
    ELSE IF Head(sorted).score >= c.score
         THEN <<Head(sorted)>> \o InsertDesc(c, Tail(sorted))
         ELSE <<c>> \o sorted

RECURSIVE SortDesc(_)
SortDesc(cs) ==
    IF cs = <<>> THEN <<>>
    ELSE LET n == Len(cs)
         IN  InsertDesc(cs[n], SortDesc(SubSeq(cs, 1, n - 1)))

ConfCap == (95 * Unit) \div 100
OkThreshold == (7 * Unit) \div 10
RetryThreshold == (5 * Unit) \div 10

\* Confidence without the cap of line 170.
Confidence_NoCap(sorted) ==
    LET s1 == sorted[1].score
        s2 == IF Len(sorted) > 1 THEN sorted[2].score ELSE 0
        margin == Max(0, s1 - s2)
    IN  (5 * s1) \div 10 + (5 * margin) \div 10

\* Confidence with the margin taken against 0 instead of the runner-up.
Confidence_NoRunnerUp(sorted) ==
    LET s1 == sorted[1].score
        margin == Max(0, s1 - 0)
    IN  Min(ConfCap, (5 * s1) \div 10 + (5 * margin) \div 10)

\* Lines 167-170 (and 181-184) on a sorted list.
Confidence(sorted) ==
    LET s1 == sorted[1].score
        s2 == IF Len(sorted) > 1 THEN sorted[2].score ELSE 0
        margin == Max(0, s1 - s2)
    IN  Min(ConfCap, (5 * s1) \div 10 + (5 * margin) \div 10)

\* Python truthiness of an optional string.
Truthy(opt) == opt # None /\ opt[1] # <<>>

\* The retry condition with the test of the area hint inverted.
ShouldRetry_HintInverted(hint, c) ==
    c < OkThreshold /\ ~Truthy(hint) /\ c < RetryThreshold

\* Lines 173-175.
ShouldRetry(hint, c) == c < OkThreshold /\ Truthy(hint) /\ c < RetryThreshold

\* The retry repeating the caller's area hint.
RetryHint_Kept(hint) == hint

\* Line 176: the retry passes None as the area hint.
RetryHint(hint) == None

\* Line 186.
AdoptRetry(alt_conf, c) == alt_conf > c

CandLimit == 3

\* The decision naming the top candidate's url whatever the confidence.
Decide_AlwaysBest(cs, c) ==
    IF c < OkThreshold
    THEN ResolveOut("ambiguous", Some(cs[1].url), Take(cs, CandLimit), c, FALSE,
                    [method |-> "tabelog_search"])
    ELSE ResolveOut("ok", Some(cs[1].url), Take(cs, CandLimit), c, FALSE,
                    [method |-> "tabelog_search"])

\* Lines 190-196.
Decide(cs, c) ==
    IF c < OkThreshold
    THEN ResolveOut("ambiguous", None, Take(cs, CandLimit), c, FALSE,
                    [method |-> "tabelog_search"])
    ELSE ResolveOut("ok", Some(cs[1].url), Take(cs, CandLimit), c, FALSE,
                    [method |-> "tabelog_search"])

\* An empty search reported as a failure.
NotFound_AsError == ResolveOut("error", None, <<>>, 0, FALSE,
                               [error |-> 0])

\* Lines 159-161.
NotFound == ResolveOut("not_found", None, <<>>, 0, FALSE,
                       [method |-> "tabelog_search"])

ReasonLimit == 300

\* The handler without the [:300].
ErrorOut_Untruncated(msg_len) ==
    ResolveOut("error", None, <<>>, 0, FALSE, [error |-> msg_len])

\* Lines 197-198; an exception is modelled by the length of its message.
ErrorOut(msg_len) ==
    ResolveOut("error", None, <<>>, 0, FALSE,
               [error |-> Min(msg_len, ReasonLimit)])

\* len(str(e)) of the TypeError that line 143 raises:
\* "'>=' not supported between instances of 'NoneType' and 'float'".
TypeErrorMessageLen == 62

(***************************************************************************)
(* taberogu.fetch_summary                                                  *)
(***************************************************************************)

SummaryOut(status, url, rating, review_count, price_dinner, price_lunch, last_review_date, captured_at, retryable, provenance) ==
    [status |-> status, url |-> url, rating |-> rating,
     review_count |-> review_count, price_dinner |-> price_dinner,
     price_lunch |-> price_lunch, last_review_date |-> last_review_date,
     captured_at |-> captured_at, retryable |-> retryable,
     provenance |-> provenance]

\* ts(): the time of the call.
ts == "now"

\* re.sub(r"\D+", "", text)
RECURSIVE DigitsOnly(_)
DigitsOnly(t) ==
    IF t = <<>> THEN <<>>
    ELSE IF IsDigit(Head(t)) THEN <<Head(t)>> \o DigitsOnly(Tail(t))
    ELSE DigitsOnly(Tail(t))

\* Lines 247-255: int() of the digits, None without the node or without digits.
ParseReviewCount(rc) ==
    IF rc = None THEN None
    ELSE IF DigitsOnly(rc[1]) = <<>> THEN None
    ELSE Some(IntPart(DigitsOnly(rc[1]), 0))

\* _txt and get_text(strip=True) on an optional node whose text is given.
Txt(el) == el

DateLen == 10

\* Lines 260-263: d is None, or a time node with or without the attribute.
LastReviewDate(d) ==
    IF d # None /\ d[1] # None THEN Some(Take(d[1][1], DateLen)) ELSE None

\* The test of line 266 with "or" in place of "and".
SummaryStatus_Either(rating, review_count) ==
    IF rating = None \/ review_count = None THEN "changed" ELSE "ok"

\* Line 266.
SummaryStatus(rating, review_count) ==
    IF rating = None /\ review_count = None THEN "changed" ELSE "ok"

SummaryError(url, provenance) ==
    SummaryOut("error", url, None, None, None, None, None, ts, FALSE, provenance)

\* fetch_summary on what the request brings back: an exception from the
\* request or from the parser, a status code, and for 200 the nodes the
\* selectors find.
fetch_summary(url, resp) ==
    IF resp.kind = "exception"
    THEN SummaryError(url, [error |-> Min(resp.msg_len, ReasonLimit)])
    ELSE IF resp.code # 200
    THEN SummaryError(url, [status_code |-> resp.code])
    ELSE LET rating == ParseRating(resp.page.node)
             review_count == ParseReviewCount(resp.page.rc)
             price_dinner == Txt(resp.page.dinner)
             price_lunch == Txt(resp.page.lunch)
             last_review_date == LastReviewDate(resp.page.d)
             status == SummaryStatus(rating, review_count)
         IN  IF status = "changed"
             THEN SummaryOut("changed", url, None, None, price_dinner,
                             price_lunch, last_review_date, ts, FALSE,
                             [selector_version |-> "v3"])
             ELSE SummaryOut("ok", url, rating, review_count, price_dinner,
                             price_lunch, last_review_date, ts, FALSE,
                             [selector_version |-> "v3"])

(***************************************************************************)
(* Inputs of the resolver                                                  *)
(***************************************************************************)

\* Most blocks on the page of the first search, and of the retry.
MaxBlocks == 4
MaxAltBlocks == 2

\* Longest exception message.
MaxMsgLen == 500

QueryName == <<"a", "b", "c", "d">>
QueryNames == {QueryName}

AreaHints == {None, Some(<<>>), Some(<<"T", "o", "k", "y", "o">>)}

Block(anchor, nm, href, rv) == [anchor |-> anchor, nm |-> nm, href |-> href, rv |-> rv]

\* The listing blocks a page is made of.  Each listing has its own link.
ExactHigh == Block(TRUE, <<"a", "b", " ", "c", "d", "HON", "TEN">>,
                   <<"h", "t", "t", "p", ":", "/", "1">>, Some(<<"3", ".", "5">>))
ExactLow == Block(TRUE, <<"a", "b", "c", "d">>, <<"/", "2">>, Some(<<"3", ".", "0">>))
OtherHigh == Block(TRUE, <<"x", "y">>, <<"/", "3">>, Some(<<"3", ".", "4">>))
OtherLow == Block(TRUE, <<"x", "y">>, <<>>, Some(<<"3", ".", "3", "9">>))
Unrated == Block(TRUE, <<"a", "b", "c", "d">>, <<"/", "5">>, Some(<<"-">>))
NoRatingSpan == Block(TRUE, <<"a", "b", "c", "d">>, <<"/", "5">>, None)
NoAnchor == Block(FALSE, <<>>, <<>>, None)

Blocks == {ExactHigh, ExactLow, OtherHigh, OtherLow, Unrated, NoRatingSpan, NoAnchor}

Pages(n) == UNION {[1..k -> Blocks] : k \in 0..n}

Response(kind, code, blocks) == [kind |-> kind, code |-> code, blocks |-> blocks]

\* What one request to the directory can bring back.
Failures == {Response("timeout", 0, <<>>), Response("status", 503, <<>>),
             Response("parse_error", 200, <<>>)}

Responses(n) == Failures \cup {Response("page", 200, p) : p \in Pages(n)}

FirstResponses == Responses(MaxBlocks)
RetryResponses == Responses(MaxAltBlocks)

ExcLens == {TypeErrorMessageLen, ReasonLimit - 1, ReasonLimit, ReasonLimit + 1,
            MaxMsgLen}

(***************************************************************************)
(* Exact arithmetic for db_search.py, standarize_review.py and yelp.py     *)
(*                                                                         *)
(* The quotients these files form are not multiples of 1/Unit, so a float  *)
(* of theirs is a fraction in lowest terms with a positive denominator;    *)
(* equal values are equal records.                                         *)
(***************************************************************************)

RECURSIVE GCD(_, _)
GCD(a, b) == IF b = 0 THEN a ELSE GCD(b, a % b)

Rat(n, d) ==
    LET g == GCD(IF n < 0 THEN -n ELSE n, IF d < 0 THEN -d ELSE d)
        s == IF d < 0 THEN -1 ELSE 1
    IN  [num |-> s * (n \div g), den |-> s * (d \div g)]

RatAdd(x, y) == Rat(x.num * y.den + y.num * x.den, x.den * y.den)
RatSub(x, y) == Rat(x.num * y.den - y.num * x.den, x.den * y.den)
RatMul(x, y) == Rat(x.num * y.num, x.den * y.den)
RatDiv(x, y) == Rat(x.num * y.den, x.den * y.num)
RatLe(x, y) == x.num * y.den <= y.num * x.den

\* The words of the inputs below.  A katakana is written k followed by its
\* reading: "kBA" "kCHOON" are the two characters of the suffix for bar.
Text ==
    [shinjuku |-> <<"S", "J">>,
     shibuya |-> <<"S", "B">>,
     no_smoking |-> <<"N", "S">>,
     smoking |-> <<"S", "M">>,
     sushi |-> <<"s", "u", "s", "h", "i">>,
     sushi_bar |-> <<"S", "u", "s", "h", "i", " ", "B", "a", "r">>,
     ramen |-> <<"r", "a", "m", "e", "n">>,
     tatsuya |-> <<"T", "a", "t", "s", "u", "y", "a">>,
     tatsuya_ginza |->
         <<"T", "a", "t", "s", "u", "y", "a", " ", "G", "i", "n", "z", "a">>,
     joes_cafe |-> <<"J", "o", "e", "'", "s", " ", "C", "a", "f", "e">>,
     tatsuya_bar |->
         <<"T", "A", "T", "S", "U", "Y", "A", " ", "kBA", "kCHOON">>,
     sushi_taro |-> <<"S", "u", "s", "h", "i", " ", "T", "a", "r", "o">>,
     bar |-> <<"B", "a", "r">>,
     kitchen |-> <<"K", "i", "t", "c", "h", "e", "n">>,
     url |-> <<"h", "t", "t", "p", "s", ":", "/", "/", "y">>]

(***************************************************************************)
(* db_search: the catalog queries                                          *)
(***************************************************************************)

\* Line 29: mu0 in tenths, and w0.
PriorMeanTenths == 35
PriorWeight == 30

\* _goodness without the clamp of line 31.
_goodness_Unclamped(vec_score, star_rating, review_count) ==
    LET s == IF vec_score = None THEN 0 ELSE vec_score[1]
        r == IF star_rating = None THEN 0 ELSE star_rating[1]
        n == IF review_count = None THEN 0 ELSE review_count[1]
        rating_shrunk == Rat(n * r + PriorWeight * PriorMeanTenths,
                             10 * (n + PriorWeight))
        rescaled == RatDiv(RatSub(rating_shrunk, Rat(3, 1)), Rat(3, 2))
    IN  RatAdd(RatMul(Rat(6, 10), Rat(s, 100)), RatMul(Rat(4, 10), rescaled))

\* _goodness, lines 25-32.  vec_score is in hundredths and star_rating in
\* tenths; both and review_count are None for an SQL NULL.
_goodness(vec_score, star_rating, review_count) ==
    LET s == IF vec_score = None THEN 0 ELSE vec_score[1]
        r == IF star_rating = None THEN 0 ELSE star_rating[1]
        n == IF review_count = None THEN 0 ELSE review_count[1]
        rating_shrunk ==
            IF n + PriorWeight > 0
            THEN Rat(n * r + PriorWeight * PriorMeanTenths,
                     10 * (n + PriorWeight))
            ELSE Rat(PriorMeanTenths, 10)
        rescaled == RatDiv(RatSub(rating_shrunk, Rat(3, 1)), Rat(3, 2))
        capped == IF RatLe(Rat(1, 1), rescaled) THEN Rat(1, 1) ELSE rescaled
        rating_norm == IF RatLe(capped, Rat(0, 1)) THEN Rat(0, 1) ELSE capped
    IN  RatAdd(RatMul(Rat(6, 10), Rat(s, 100)),
               RatMul(Rat(4, 10), rating_norm))

\* lower() of one character; PostgreSQL's ILIKE and Python's str.lower agree
\* on the modelled alphabet.
LowerChar(ch) ==
    CASE ch = "A" -> "a" [] ch = "B" -> "b" [] ch = "C" -> "c" [] ch = "D" -> "d"
      [] ch = "E" -> "e" [] ch = "F" -> "f" [] ch = "G" -> "g" [] ch = "H" -> "h"
      [] ch = "I" -> "i" [] ch = "J" -> "j" [] ch = "K" -> "k" [] ch = "L" -> "l"
      [] ch = "M" -> "m" [] ch = "N" -> "n" [] ch = "O" -> "o" [] ch = "P" -> "p"
      [] ch = "Q" -> "q" [] ch = "R" -> "r" [] ch = "S" -> "s" [] ch = "T" -> "t"
      [] ch = "U" -> "u" [] ch = "V" -> "v" [] ch = "W" -> "w" [] ch = "X" -> "x"
      [] ch = "Y" -> "y" [] ch = "Z" -> "z"
      [] OTHER -> ch

\* string ILIKE pattern, for a pattern without the escape character: % is any
\* run of characters, _ any one character, any other character itself in
\* either case.
RECURSIVE ILike(_, _)
ILike(s, p) ==
    IF p = <<>> THEN s = <<>>
    ELSE IF Head(p) = "%"
    THEN ILike(s, Tail(p)) \/ (s # <<>> /\ ILike(Tail(s), p))
    ELSE IF Head(p) = "_"
    THEN s # <<>> /\ ILike(Tail(s), Tail(p))
    ELSE /\ s # <<>>
         /\ LowerChar(Head(s)) = LowerChar(Head(p))
         /\ ILike(Tail(s), Tail(p))

\* Lines 57-59: cat_ok.  unnest of a NULL or empty array has no row.
CatOk(r, category_hint) ==
    IF category_hint # None
    THEN /\ r.categories # None
         /\ \E i \in 1..Len(r.categories[1]) :
              ILike(r.categories[1][i], <<"%">> \o category_hint[1] \o <<"%">>)
    ELSE TRUE

\* The WHERE clause without the test of the ward.
FiltWhere_NoWard(r, f) ==
    /\ \/ f.max_dinner_budget = None
       \/ r.budget_dinner_max = None
       \/ r.budget_dinner_max[1] <= f.max_dinner_budget[1]
    /\ f.smoking = None \/ (r.smoking # None /\ r.smoking = f.smoking)
    /\ \/ f.with_children = None
       \/ (r.with_children # None /\ r.with_children = f.with_children)

\* Lines 61-64: the WHERE clause of filt.  A comparison with an SQL NULL is
\* not true.
FiltWhere(r, f) ==
    /\ f.ward = None \/ (r.ward # None /\ r.ward = f.ward)
    /\ \/ f.max_dinner_budget = None
       \/ r.budget_dinner_max = None
       \/ r.budget_dinner_max[1] <= f.max_dinner_budget[1]
    /\ f.smoking = None \/ (r.smoking # None /\ r.smoking = f.smoking)
    /\ \/ f.with_children = None
       \/ (r.with_children # None /\ r.with_children = f.with_children)

\* Line 70: ORDER BY vec_score DESC.  PostgreSQL leaves the order of rows with
\* equal vec_score open; tie says whether such rows come out in the order of
\* the table ("before": the earlier row first) or in the opposite order.
OrderByVec(rows, tie) ==
    LET n == Len(rows)
        before(i) ==
            {j \in 1..n :
                \/ rows[j].vec_score > rows[i].vec_score
                \/ /\ rows[j].vec_score = rows[i].vec_score
                   /\ IF tie = "before" THEN j < i ELSE j > i}
        place == {<<1 + Cardinality(before(i)), i>> : i \in 1..n}
    IN  [p \in 1..n |-> rows[(CHOOSE q \in place : q[1] = p)[2]]]

\* Line 71.
PoolLimit == 50

\* Lines 51-72: filt joined with restaurant_vectors (a record that has not
\* been embedded has no row there), restricted to cat_ok, ordered, limited.
Pool(catalog, f, tie) ==
    LET joined == SelectSeq(catalog,
                            LAMBDA r : /\ r.embedded
                                       /\ FiltWhere(r, f)
                                       /\ CatOk(r, f.category_hint))
    IN  Take(OrderByVec(joined, tie), PoolLimit)

\* Lines 88-120: one entry of results; explain lists the parts of the
\* explanation by kind.
ResultRow(rec, f) ==
    LET expl_bits ==
            (IF Truthy(f.ward) THEN <<"ward">> ELSE <<>>)
            \o (IF f.max_dinner_budget # None /\ f.max_dinner_budget[1] # 0
                THEN <<"budget">> ELSE <<>>)
            \o (IF Truthy(f.smoking) THEN <<"smoking">> ELSE <<>>)
            \o (IF f.with_children # None THEN <<"children">> ELSE <<>>)
            \o (IF Truthy(f.category_hint) THEN <<"category">> ELSE <<>>)
    IN  [restaurant_id |-> rec.restaurant_id,
         star_rating |-> rec.star_rating,
         review_count |-> rec.review_count,
         categories |-> rec.categories,
         score_semantic |-> rec.vec_score,
         score_goodness |->
             _goodness(Some(rec.vec_score), rec.star_rating, rec.review_count),
         explain |-> IF expl_bits # <<>> THEN expl_bits ELSE <<"semantic">>]

\* Line 122: list.sort(key=score_goodness, reverse=True), which is stable:
\* entries of equal goodness keep the order the query gave them.
SortByGoodness(rows) ==
    LET n == Len(rows)
        before(i) ==
            {j \in 1..n :
                \/ ~RatLe(rows[j].score_goodness, rows[i].score_goodness)
                \/ rows[j].score_goodness = rows[i].score_goodness /\ j < i}
        place == {<<1 + Cardinality(before(i)), i>> : i \in 1..n}
    IN  [p \in 1..n |-> rows[(CHOOSE q \in place : q[1] = p)[2]]]

\* results[:k], line 123: a negative k counts from the end of the list.
SliceTo_Whole(rows, k) == rows
SliceTo(rows, k) ==
    IF k >= 0 THEN Take(rows, k) ELSE Take(rows, Max(Len(rows) + k, 0))

\* A returned dict: a key it does not have is None.
DbOut(status, results, restaurant, reason_len) ==
    [status |-> status, results |-> results, restaurant |-> restaurant,
     reason |-> reason_len, retryable |-> FALSE]

\* Lines 125 and 182: str(e)[:200].
DbReasonLimit == 200

DbError_Untruncated(msg_len) == DbOut("error", None, None, Some(msg_len))
DbError(msg_len) ==
    DbOut("error", None, None, Some(Min(msg_len, DbReasonLimit)))

\* Line 165.
BelowMinScore_Inclusive(score, min_score) == score <= min_score
BelowMinScore(score, min_score) == score < min_score

\* search_restaurants, lines 48-125, against a store that answers (ok) or
\* fails with a message of msg_len characters, as does a failing embed().
search_restaurants(catalog, f, k, store) ==
    IF store.kind # "ok"
    THEN DbError(store.msg_len)
    ELSE LET rows == Pool(catalog, f, store.tie)
             results == [i \in 1..Len(rows) |-> ResultRow(rows[i], f)]
         IN  DbOut("ok", Some(SliceTo(SortByGoodness(results), k)), None, None)

\* get_restaurant_by_name, lines 133-182: no filter, ORDER BY vec_score DESC
\* LIMIT 1, and the gate on min_score (in hundredths).
get_restaurant_by_name(catalog, min_score, store) ==
    IF store.kind # "ok"
    THEN DbError(store.msg_len)
    ELSE LET rows == Take(OrderByVec(SelectSeq(catalog, LAMBDA r : r.embedded),
                                     store.tie), 1)
         IN  IF rows = <<>>
             THEN DbOut("ok", None, Some(None), None)
             ELSE IF BelowMinScore(rows[1].vec_score, min_score)
             THEN DbOut("ok", None, Some(None), None)
             ELSE DbOut("ok", None,
                        Some(Some([restaurant_id |-> rows[1].restaurant_id,
                                   star_rating |-> rows[1].star_rating,
                                   review_count |-> rows[1].review_count,
                                   categories |-> rows[1].categories,
                                   ward |-> rows[1].ward,
                                   score_semantic |-> rows[1].vec_score])),
                        None)

(***************************************************************************)
(* Inputs of the catalog queries                                           *)
(***************************************************************************)

\* How many embedded records the large catalog has beyond PoolLimit.
MaxBeyondPool == 2

\* A row of restaurants with, when embedded, its row of restaurant_vectors and
\* the similarity of that vector to the query.
Rec(id, ward, budget, smoking, children, cats, star, n, embedded, vec) ==
    [restaurant_id |-> id, ward |-> ward, budget_dinner_max |-> budget,
     smoking |-> smoking, with_children |-> children, categories |-> cats,
     star_rating |-> star, review_count |-> n, embedded |-> embedded,
     vec_score |-> vec]

\* empty: no record.  small: a record of every kind (NULL ward, budget,
\* smoking, with_children, categories and rating, an empty category list, a
\* record without a vector, two records of equal similarity).  large: more
\* records than the pool holds; similarities are distinct except for one pair
\* at the edge of the pool, and the least similar record is the best rated,
\* so that it has the highest goodness of the catalog.
Catalogs ==
    LET size == PoolLimit + MaxBeyondPool
        vec(i) == LET m == (i * 37) % (size + 1)
                  IN  IF m = 3 THEN 42 ELSE 40 + m
    IN  [empty |-> <<>>,
         small |->
            << Rec(1, Some(Text.shinjuku), Some(3000), Some(Text.no_smoking),
                   Some(TRUE), Some(<<Text.sushi>>), Some(35), Some(70),
                   TRUE, 80),
               Rec(2, Some(Text.shinjuku), Some(5000), Some(Text.no_smoking),
                   Some(FALSE), Some(<<Text.ramen, Text.sushi_bar>>),
                   Some(40), Some(470), TRUE, 90),
               Rec(3, Some(Text.shibuya), None, Some(Text.smoking), None,
                   Some(<<Text.ramen>>), None, None, TRUE, 75),
               Rec(4, None, Some(2000), None, Some(TRUE), None, Some(32),
                   Some(20), TRUE, 95),
               Rec(5, Some(Text.shinjuku), Some(3000), Some(Text.no_smoking),
                   Some(TRUE), Some(<<Text.sushi>>), Some(45), Some(470),
                   FALSE, 99),
               Rec(6, Some(Text.shinjuku), Some(1000), Some(Text.no_smoking),
                   Some(TRUE), Some(<<>>), Some(45), Some(0), TRUE, 80) >>,
         large |->
            [i \in 1..size |->
                Rec(i, Some(Text.shinjuku), Some(1000 * (i % 5)),
                    Some(Text.no_smoking), Some(TRUE), Some(<<Text.sushi>>),
                    Some(IF vec(i) = 41 THEN 50 ELSE 30 + 2 * (i % 2)),
                    Some(470), TRUE, vec(i))]]

Filters ==
    [ward : {None, Some(Text.shinjuku), Some(<<>>)},
     max_dinner_budget : {None, Some(3000), Some(0)},
     smoking : {None, Some(Text.no_smoking)},
     with_children : {None, Some(TRUE), Some(FALSE)},
     category_hint : {None, Some(<<>>), Some(Text.sushi),
                      Some(<<"S", "_", "S">>), Some(<<"u", "d", "o", "n">>)}]

\* The store and embed(): they answer, with rows of equal similarity in either
\* order, or one of them raises.
DbStores ==
    {[kind |-> "ok", msg_len |-> 0, tie |-> t] : t \in {"before", "after"}}
    \cup {[kind |-> "error", msg_len |-> n, tie |-> "before"] :
            n \in {DbReasonLimit - 1, DbReasonLimit, DbReasonLimit + 1, MaxMsgLen}}

(***************************************************************************)
(* standarize_review.compute_standarized_review_score                      *)
(*                                                                         *)
(* The six arguments are args.score and args.count by source (the          *)
(* taberogu_ arguments are those of the source tabelog); a score is in     *)
(* tenths, and a score or a count is None when the argument is.            *)
(***************************************************************************)

Sources == <<"google", "tabelog", "yelp">>

\* Lines 29-30.
mu == [google |-> Rat(38, 10), tabelog |-> Rat(31, 10), yelp |-> Rat(40, 10)]
sigma == [google |-> Rat(4, 10), tabelog |-> Rat(35, 100), yelp |-> Rat(5, 10)]

\* Lines 33-37: int(count) if count else 0.
counts(args) ==
    [s \in DOMAIN args.count |->
        IF args.count[s] # None /\ args.count[s][1] # 0
        THEN args.count[s][1] ELSE 0]

\* Line 38.
total_count(args) ==
    counts(args).google + counts(args).tabelog + counts(args).yelp

\* Line 39.
NoReviews_Never(total) == FALSE
NoReviews(total) == total = 0

\* Lines 43-46.
z(score, source) ==
    IF score = None THEN None
    ELSE Some(RatDiv(RatSub(Rat(score[1], 10), mu[source]), sigma[source]))

\* Line 59, negated: the source is not skipped.
Contributes(args, source) ==
    z(args.score[source], source) # None /\ counts(args)[source] # 0

\* Line 61.
weight(args, source) == Rat(counts(args)[source], total_count(args))

\* Lines 53-62: weighted_sum after the turns of the loop from source i on.
RECURSIVE weighted_sum(_, _)
weighted_sum(args, i) ==
    IF i > Len(Sources) THEN Rat(0, 1)
    ELSE LET source == Sources[i]
             rest == weighted_sum(args, i + 1)
         IN  IF Contributes(args, source)
             THEN RatAdd(RatMul(weight(args, source),
                                z(args.score[source], source)[1]),
                         rest)
             ELSE rest

\* Line 65, and the same confined to the scale from 1 to 5.
mapped_score_Clamped(ws) ==
    LET m == RatAdd(Rat(35, 10), RatMul(Rat(5, 10), ws))
    IN  IF RatLe(m, Rat(1, 1)) THEN Rat(1, 1)
        ELSE IF RatLe(Rat(5, 1), m) THEN Rat(5, 1) ELSE m
mapped_score(ws) == RatAdd(Rat(35, 10), RatMul(Rat(5, 10), ws))

\* Lines 32-66.
compute_standarized_review_score(args) ==
    IF NoReviews(total_count(args)) THEN None
    ELSE Some(mapped_score(weighted_sum(args, 1)))

\* The largest review count of a call.
MaxReviewCount == 300

ReviewArgs ==
    LET review_counts == {None, Some(0), Some(100), Some(MaxReviewCount)}
    IN  [score : [google : {None, Some(40), Some(50)},
                  tabelog : {None, Some(10), Some(31), Some(50)},
                  yelp : {None, Some(10), Some(45)}],
         count : [google : review_counts, tabelog : review_counts,
                  yelp : review_counts]]

(***************************************************************************)
(* yelp: the second provider                                               *)
(***************************************************************************)

\* str.strip(): whitespace removed at both ends.
RECURSIVE Strip(_)
Strip(s) ==
    IF s # <<>> /\ Head(s) \in WhiteSpace THEN Strip(Tail(s))
    ELSE IF s # <<>> /\ s[Len(s)] \in WhiteSpace
    THEN Strip(SubSeq(s, 1, Len(s) - 1))
    ELSE s

\* Lines 28-42.
suffixes_to_remove ==
    << <<"r", "e", "s", "t", "a", "u", "r", "a", "n", "t">>,
       <<"c", "a", "f", "e">>,
       <<"c", "o", "f", "f", "e", "e">>,
       <<"b", "a", "r">>,
       <<"k", "i", "t", "c", "h", "e", "n">>,
       <<"d", "i", "n", "i", "n", "g">>,
       <<"f", "o", "o", "d">>,
       <<"kRE", "kSU", "kTO", "kRA", "kN">>,
       <<"kKA", "kFU", "kE">>,
       <<"kBA", "kCHOON">>,
       <<"kKI", "kTSU", "kCHI", "kN">>,
       <<"kDA", "kI", "kNI", "kN", "kGU">>,
       <<"kFU", "kCHOON", "kDO">> >>

\* Lines 44-46: the suffixes are tried once each, in order.
RECURSIVE RemoveSuffixesFrom(_, _)
RemoveSuffixesFrom(s, i) ==
    IF i > Len(suffixes_to_remove) THEN s
    ELSE LET suffix == suffixes_to_remove[i]
             endswith ==
                 /\ Len(s) >= Len(suffix)
                 /\ SubSeq(s, Len(s) - Len(suffix) + 1, Len(s)) = suffix
         IN  RemoveSuffixesFrom(
                 IF endswith
                 THEN Strip(SubSeq(s, 1, Len(s) - Len(suffix)))
                 ELSE s,
                 i + 1)

\* Line 49: re.sub(r"[^\w\s]", "", .).  The characters of the modelled
\* alphabet that neither \w nor \s matches are the punctuation.
RemoveSpecial(s) ==
    LET punctuation ==
            {"&", "'", "-", ".", ",", ":", "/", "(", ")", "[", "]", "FW(",
             "FW)", "LENT(", "LENT)"}
    IN  SelectSeq(s, LAMBDA ch : ch \notin punctuation)

\* Line 50: re.sub(r"\s+", " ", .), before the strip.
RECURSIVE CollapseSpaces(_)
CollapseSpaces(s) ==
    IF s = <<>> THEN <<>>
    ELSE IF Head(s) \notin WhiteSpace
    THEN <<Head(s)>> \o CollapseSpaces(Tail(s))
    ELSE IF Tail(s) # <<>> /\ Head(Tail(s)) \in WhiteSpace
    THEN CollapseSpaces(Tail(s))
    ELSE <<" ">> \o CollapseSpaces(Tail(s))

\* Lines 19-52.
normalize_restaurant_name(nm) ==
    IF nm = <<>> THEN <<>>
    ELSE LET normalized == [i \in 1..Len(nm) |-> LowerChar(nm[i])]
         IN  Strip(CollapseSpaces(RemoveSpecial(
                 RemoveSuffixesFrom(normalized, 1))))

\* difflib.SequenceMatcher without junk (autojunk needs 200 characters).
\* Positions count from 0 and a range lo..hi leaves hi out, as in difflib.
RECURSIVE MatchLen(_, _, _, _, _, _)
MatchLen(a, b, i, j, ahi, bhi) ==
    IF i < ahi /\ j < bhi /\ a[i + 1] = b[j + 1]
    THEN 1 + MatchLen(a, b, i + 1, j + 1, ahi, bhi)
    ELSE 0

\* find_longest_match: a longest block, of those the one that starts earliest
\* in a, and of those the one that starts earliest in b.
find_longest_match(a, b, alo, ahi, blo, bhi) ==
    LET starts == (alo..(ahi - 1)) \X (blo..(bhi - 1))
        size(p) == MatchLen(a, b, p[1], p[2], ahi, bhi)
        sizes == {size(p) : p \in starts} \cup {0}
        bestsize == CHOOSE k \in sizes : \A k2 \in sizes : k2 <= k
        longest == {p \in starts : size(p) = bestsize}
        best == CHOOSE p \in longest :
                    \A q \in longest :
                        p[1] < q[1] \/ (p[1] = q[1] /\ p[2] <= q[2])
    IN  IF bestsize = 0 THEN [i |-> alo, j |-> blo, size |-> 0]
        ELSE [i |-> best[1], j |-> best[2], size |-> bestsize]

\* get_matching_blocks: the characters matched in all blocks together.
RECURSIVE Matches(_, _, _, _, _, _)
Matches(a, b, alo, ahi, blo, bhi) ==
    LET m == find_longest_match(a, b, alo, ahi, blo, bhi)
    IN  IF m.size = 0 THEN 0
        ELSE m.size
             + Matches(a, b, alo, m.i, blo, m.j)
             + Matches(a, b, m.i + m.size, ahi, m.j + m.size, bhi)

\* Lines 55-67.  name2 is None when the business has a null name.  ratio() is
\* 2.0 * matches / length, and 1.0 for two empty strings.
calculate_name_similarity(name1, name2) ==
    IF name1 = <<>> \/ name2 = None \/ name2 = Some(<<>>) THEN Rat(0, 1)
    ELSE LET norm1 == normalize_restaurant_name(name1)
             norm2 == normalize_restaurant_name(name2[1])
         IN  IF Len(norm1) + Len(norm2) = 0 THEN Rat(1, 1)
             ELSE Rat(2 * Matches(norm1, norm2, 0, Len(norm1), 0, Len(norm2)),
                      Len(norm1) + Len(norm2))

\* Lines 70-80, with the default min_similarity.
is_reliable_yelp_match(google_name, yelp_name) ==
    RatLe(Rat(7, 10), calculate_name_similarity(google_name, yelp_name))

\* A YelpBusinessOutput; reviews is always the empty list.
YelpBusinessOutput(nm, yelp_rating, yelp_review_count, yelp_url) ==
    [name |-> nm, yelp_rating |-> yelp_rating,
     yelp_review_count |-> yelp_review_count, yelp_url |-> yelp_url,
     reviews |-> <<>>]

\* Lines 151-157, 173-179 and 222-228: the result without Yelp data.
NoYelpData(restaurant_name) ==
    YelpBusinessOutput(restaurant_name, None, None, None)

\* Lines 168-179, and the same with the url let through.
UnreliableMatch_KeepsUrl(restaurant_name, business) ==
    YelpBusinessOutput(restaurant_name, None, None, business.url)
UnreliableMatch(restaurant_name, business) == NoYelpData(restaurant_name)

\* _search_yelp_business_internal, lines 113-194, which yelp_business_search
\* (line 102) calls and returns, in the environment env: whether YELP_API_KEY
\* is set and what requests.get and .json() do.  It returns a value or raises.
\* A business is the dict businesses[0], a key it lacks being None.
_search_yelp_business_internal(restaurant_name, env) ==
    IF ~env.api_key
    THEN [kind |-> "raise", message |-> "YELP_API_KEY is not set"]
    ELSE IF env.kind = "exception" \/ env.status_code # 200
            \/ env.kind = "malformed"
    THEN [kind |-> "raise",
          message |-> "Failed to search for restaurant on Yelp"]
    ELSE IF env.businesses = <<>>
    THEN [kind |-> "return", value |-> NoYelpData(restaurant_name)]
    ELSE LET business == env.businesses[1]
             business_name ==
                 IF business.name = None THEN Some(restaurant_name)
                 ELSE business.name[1]
         IN  IF ~is_reliable_yelp_match(restaurant_name, business_name)
             THEN [kind |-> "return",
                   value |-> UnreliableMatch(restaurant_name, business)]
             ELSE [kind |-> "return",
                   value |-> YelpBusinessOutput(business_name[1],
                                                business.rating,
                                                business.review_count,
                                                business.url)]

\* Lines 215-229: one turn of the loop of yelp_enhance_google_maps_results.
EnhanceOne(restaurant_name, env) ==
    LET r == _search_yelp_business_internal(restaurant_name, env)
    IN  IF r.kind = "return" THEN r.value ELSE NoYelpData(restaurant_name)

\* The longest list of names of a batch.
MaxBatch == 2

\* businesses[0] of a search response; Yelp gives every business a name,
\* which can be null, and may leave out the rest.
Business(nm, rating, review_count, url) ==
    [name |-> Some(nm), rating |-> rating, review_count |-> review_count,
     url |-> url]

Businesses ==
    {Business(nm, d[1], d[2], d[3]) :
        nm \in {None, Some(Text.tatsuya), Some(Text.tatsuya_bar),
                Some(Text.sushi_taro), Some(Text.kitchen)},
        d \in {<<Some(45), Some(120), Some(Text.url)>>,
               <<None, Some(120), Some(Text.url)>>,
               <<None, None, None>>}}

\* What a lookup can meet: requests.get raises (timeout, connection), answers
\* with another status than 200, answers 200 with a body that is not a JSON
\* object, or answers 200 with a list of at most one business.
YelpEnvs(keys, businesses) ==
    LET answers ==
            {<<"exception", 0, <<>>>>, <<"response", 429, <<>>>>,
             <<"response", 500, <<>>>>, <<"malformed", 200, <<>>>>,
             <<"response", 200, <<>>>>}
            \cup {<<"response", 200, <<b>>>> : b \in businesses}
    IN  {[api_key |-> key, kind |-> a[1], status_code |-> a[2],
          businesses |-> a[3]] : key \in keys, a \in answers}

\* The lists of at most n elements of S.
RECURSIVE SeqsUpTo(_, _)
SeqsUpTo(S, n) ==
    IF n = 0 THEN {<<>>}
    ELSE LET shorter == SeqsUpTo(S, n - 1)
         IN  shorter \cup {Append(s, x) : s \in shorter, x \in S}

(***************************************************************************)
(* Inputs of the calls of norm_jp and score_candidate on their own         *)
(***************************************************************************)

\* Names as the listings and the callers write them: one name in several
\* spacings and bracket styles and with each branch suffix, a name in which
\* removing a branch suffix uncovers another, names made of brackets or of a
\* branch suffix only, and names that share with the first a substring, a
\* prefix of four characters, single characters, or nothing.
NameForms ==
    {<<"a", "b", "c", "d">>,
     <<"a", "b", " ", "c", "d">>,
     <<"a", "b", "IDSP", "c", "d">>,
     <<"(", "a", "b", "c", "d", ")">>,
     <<"FW(", "a", "b", "c", "d", "FW)">>,
     <<"[", "a", "b", "]", "c", "d">>,
     <<"LENT(", "a", "b", "c", "d", "LENT)">>,
     <<"a", "b", "c", "d", "HON", "TEN">>,
     <<"a", "b", "c", "d", " ", "BETSU", "KAN">>,
     <<"a", "b", "c", "d", "FW(", "NISHI", "KUCHI", "TEN", "FW)">>,
     <<"a", "b", "c", "d", "HIGASHI", "KUCHI", "TEN">>,
     <<"HON", "BETSU", "KAN", "TEN">>,
     <<"(", " ", ")">>,
     <<"HON", "TEN">>,
     <<"x", "y">>,
     <<"x", "b", "y", "d">>,
     <<"a", "b", "c", "d", "e">>,
     <<"a", "b", "c", "d", "x", "y">>}

(***************************************************************************)
(* load_csv_db: loading a listing file into the restaurants table          *)
(***************************************************************************)

\* rid, lines 10-11: the SHA-256 of the url in hexadecimal, here its first
\* eight digits, for the urls "/1", " /1" and "/2" of the modelled files.
rid(url) ==
    CASE url = <<"/", "1">> -> "3f294bca"
      [] url = <<" ", "/", "1">> -> "0090cbd8"
      [] url = <<"/", "2">> -> "677a27aa"

\* The row with its id taken from the cell as it stands in the file.
CsvRow_RawUrl(r) ==
    [restaurant_id |-> rid(r.Page_URL), name |-> Strip(r.Restaurant_name),
     page_url |-> Strip(r.Page_URL), tel |-> r.Tel]

\* Lines 91-101 and the others like 101: what is stored of one line of the
\* file.  name stands for the columns the conflict clause updates, tel for
\* those it leaves alone.
CsvRow(r) ==
    [restaurant_id |-> rid(Strip(r.Page_URL)), name |-> Strip(r.Restaurant_name),
     page_url |-> Strip(r.Page_URL), tel |-> r.Tel]

\* Lines 139-172: INSERT ... ON CONFLICT (restaurant_id) DO UPDATE.  A new id
\* is inserted, updated_at keeping the default of the column; on an id the
\* table holds, name is overwritten and updated_at becomes now().
Upsert(table, row, now) ==
    IF \E t \in table : t.restaurant_id = row.restaurant_id
    THEN {IF t.restaurant_id = row.restaurant_id
          THEN [t EXCEPT !.name = row.name, !.updated_at = Some(now)]
          ELSE t : t \in table}
    ELSE table \cup {[restaurant_id |-> row.restaurant_id, name |-> row.name,
                      page_url |-> row.page_url, tel |-> row.tel,
                      updated_at |-> None]}

\* Lines 88-174 of a run that commits: every line of the file, in order.
RECURSIVE load_csv_to_db(_, _, _)
load_csv_to_db(table, file, now) ==
    IF file = <<>> THEN table
    ELSE load_csv_to_db(Upsert(table, CsvRow(Head(file)), now), Tail(file), now)

MaxRows == 2
MaxLoads == 3

\* The files: up to MaxRows lines, among them two listings of one url with
\* different columns, the url cell of one padded with a space, and a listing
\* of a second url.
CsvFiles ==
    LET line(url, nm, tel) == [Page_URL |-> url, Restaurant_name |-> nm, Tel |-> tel]
        lines == {line(<<"/", "1">>, <<"a">>, <<"1">>),
                  line(<<" ", "/", "1">>, <<"b", " ">>, <<"2">>),
                  line(<<"/", "2">>, <<"a">>, <<"1">>)}
    IN  UNION {[1..k -> lines] : k \in 0..MaxRows}

(***************************************************************************)
(* State                                                                   *)
(***************************************************************************)
VARIABLES
    name,       \* resolve_entity's argument name
    area_hint,  \* resolve_entity's argument area_hint
    pc,         \* position in resolve_entity: search, score, retry, done
    calls,      \* the calls of search_candidates made so far
    cands,      \* the local cands
    conf,       \* the local conf, None until line 170 has set it
    first,      \* cands and conf as lines 166-170 left them
    raised,     \* message length of the exception line 197 caught, or None
    result,     \* the ResolveOut returned, None until the call returns
    scoring,    \* a pair of score_candidate calls: arguments and outcomes
    summary,    \* a fetch_summary call: url, response and SummaryOut
    db,         \* a catalog query: arguments, behaviour of the store, result
    standardizer, \* a compute_standarized_review_score call
    yelp,       \* a Yelp lookup or batch: arguments, responses, outcome
    helper,     \* a call of norm_jp, score_candidate or _goodness on its own
    ingest      \* the restaurants table and the load_csv_to_db runs made on it

resolver == <<name, area_hint, pc, calls, cands, conf, first, raised, result>>

vars == <<resolver, scoring, summary, db, standardizer, yelp, helper, ingest>>

NoScoring == [pc |-> "idle"]
NoSummary == [pc |-> "idle"]
Idle == [pc |-> "idle"]

\* One call of search_candidates: its arguments, what the directory did, how
\* many candidates it returned, and whether conf was set when it was made.
Call(nm, hint, resp, out) ==
    [name |-> nm, hint |-> hint, outcome |-> resp.kind,
     found |-> Len(out), conf_known |-> conf # None]

Init ==
    /\ name \in QueryNames
    /\ area_hint \in AreaHints
    /\ pc = "search"
    /\ calls = <<>>
    /\ cands = <<>>
    /\ conf = None
    /\ first = None
    /\ raised = None
    /\ result = None
    /\ scoring = NoScoring
    /\ summary = NoSummary
    /\ db = Idle
    /\ standardizer = Idle
    /\ yelp = Idle
    /\ helper = Idle
    /\ ingest = Idle

\* Lines 157-161: the first search.
Search ==
    /\ pc = "search"
    /\ \E resp \in FirstResponses :
         LET out == search_candidates(resp)
         IN  /\ calls' = Append(calls, Call(name, area_hint, resp, out))
             /\ cands' = out
             /\ IF out = <<>>
                THEN result' = Some(NotFound) /\ pc' = "done"
                ELSE result' = result /\ pc' = "score"
    /\ UNCHANGED <<name, area_hint, conf, first, raised>>
    /\ UNCHANGED <<scoring, summary, db, standardizer, yelp, helper, ingest>>

\* An exception leaving search_candidates from its lines 36-55, which are
\* outside its try (quote() rejects a name that cannot be encoded); line 197
\* catches it.
SearchRaises ==
    /\ pc = "search"
    /\ \E n \in ExcLens : raised' = Some(n) /\ result' = Some(ErrorOut(n))
    /\ pc' = "done"
    /\ UNCHANGED <<name, area_hint, calls, cands, conf, first>>
    /\ UNCHANGED <<scoring, summary, db, standardizer, yelp, helper, ingest>>

\* Lines 163-175 and, when no retry is due, 190-196.
Score ==
    /\ pc = "score"
    /\ IF ScoringRaises(cands, name)
       THEN /\ raised' = Some(TypeErrorMessageLen)
            /\ result' = Some(ErrorOut(TypeErrorMessageLen))
            /\ pc' = "done"
            /\ UNCHANGED <<cands, conf, first>>
       ELSE LET sorted == SortDesc(ScoreAll(cands, name))
                c == Confidence(sorted)
            IN  /\ cands' = sorted
                /\ conf' = Some(c)
                /\ first' = Some([cands |-> sorted, conf |-> c])
                /\ raised' = raised
                /\ IF ShouldRetry(area_hint, c)
                   THEN result' = result /\ pc' = "retry"
                   ELSE result' = Some(Decide(sorted, c)) /\ pc' = "done"
    /\ UNCHANGED <<name, area_hint, calls, scoring, summary, db, standardizer, yelp, helper, ingest>>

\* Lines 176-196: the search without the area hint, and the decision.
Retry ==
    /\ pc = "retry"
    /\ \E resp \in RetryResponses :
         LET alt_cands == search_candidates(resp)
         IN  /\ calls' = Append(calls, Call(name, RetryHint(area_hint), resp, alt_cands))
             /\ IF alt_cands = <<>>
                THEN /\ result' = Some(Decide(cands, conf[1]))
                     /\ UNCHANGED <<cands, conf, raised>>
                ELSE IF ScoringRaises(alt_cands, name)
                THEN /\ raised' = Some(TypeErrorMessageLen)
                     /\ result' = Some(ErrorOut(TypeErrorMessageLen))
                     /\ UNCHANGED <<cands, conf>>
                ELSE LET alt_sorted == SortDesc(ScoreAll(alt_cands, name))
                         alt_conf == Confidence(alt_sorted)
                         adopt == AdoptRetry(alt_conf, conf[1])
                     IN  /\ cands' = IF adopt THEN alt_sorted ELSE cands
                         /\ conf' = IF adopt THEN Some(alt_conf) ELSE conf
                         /\ result' = Some(Decide(cands', conf'[1]))
                         /\ raised' = raised
    /\ pc' = "done"
    /\ UNCHANGED <<name, area_hint, first, scoring, summary, db, standardizer, yelp, helper, ingest>>

Next == Search \/ SearchRaises \/ Score \/ Retry

Spec == Init /\ [][Next]_vars

(***************************************************************************)
(* score_candidate on its own                                              *)
(***************************************************************************)

ScoreQueries == {<<"a", "b", "c", "d">>, <<"a", "b", "c", "d", "e">>}

ScoreCandNames ==
    {<<"a", "b", "c", "d">>,
     <<"a", "b", " ", "c", "d", "HON", "TEN">>,
     <<"FW(", "a", "b", "c", "d", "e", "FW)">>,
     <<"a", "b", "c", "d", "x">>,
     <<"x", "y">>}

\* On-page ratings as search_candidates parses them.
ScoreRatingTexts ==
    {None, Some(<<"-">>), Some(<<"3", ".", "0">>), Some(<<"3", ".", "3", "9">>),
     Some(<<"3", ".", "4">>), Some(<<"3", ".", "5">>), Some(<<"5">>)}

ScoreCands ==
    {[name |-> n, rating |-> ParseRating(t)] :
        n \in ScoreCandNames, t \in ScoreRatingTexts}

IdleResolver ==
    /\ name = <<>>
    /\ area_hint = None
    /\ pc = "idle"
    /\ calls = <<>>
    /\ cands = <<>>
    /\ conf = None
    /\ first = None
    /\ raised = None
    /\ result = None

ScoreInit ==
    /\ IdleResolver
    /\ summary = NoSummary
    /\ db = Idle
    /\ standardizer = Idle
    /\ yelp = Idle
    /\ helper = Idle
    /\ ingest = Idle
    /\ \E q \in ScoreQueries, c1 \in ScoreCands, c2 \in ScoreCands :
         scoring = [pc |-> "call", name |-> q, c1 |-> c1, c2 |-> c2]

\* score_candidate(c1, name) and score_candidate(c2, name).
ScorePair ==
    /\ scoring.pc = "call"
    /\ scoring' = [pc |-> "scored", name |-> scoring.name,
                   c1 |-> scoring.c1, c2 |-> scoring.c2,
                   out1 |-> score_candidate(scoring.c1, scoring.name),
                   out2 |-> score_candidate(scoring.c2, scoring.name)]
    /\ UNCHANGED <<resolver, summary, db, standardizer, yelp, helper, ingest>>

ScoreNext == ScorePair

SpecScore == ScoreInit /\ [][ScoreNext]_vars

(***************************************************************************)
(* fetch_summary on its own                                                *)
(***************************************************************************)

SummaryUrls == {<<"h", "t", "t", "p", ":", "/", "1">>}

\* What the selectors of fetch_summary find on a 200 page.
SummaryPages ==
    [node : {None, Some(<<"-">>), Some(<<"3", ".", "5", "8">>)},
     rc : {None, Some(<<"(", "1", ",", "2", ")">>), Some(<<"0">>), Some(<<"-">>)},
     dinner : {None, Some(<<"Y", "3", "0", "0", "0">>)},
     lunch : {None, Some(<<"Y", "9", "9", "9">>)},
     d : {None, Some(None),
          Some(Some(<<"2", "0", "2", "4", "-", "0", "1", "-", "0", "2", "T", "0", "9">>))}]

NoPage == [node |-> None, rc |-> None, dinner |-> None, lunch |-> None, d |-> None]

SummaryResponse(kind, code, msg_len, page) ==
    [kind |-> kind, code |-> code, msg_len |-> msg_len, page |-> page]

SummaryResponses ==
    {SummaryResponse("exception", 0, n, NoPage) : n \in ExcLens}
    \cup {SummaryResponse("exception", 200, n, NoPage) : n \in ExcLens}
    \cup {SummaryResponse("response", code, 0, NoPage) : code \in {403, 404, 503}}
    \cup {SummaryResponse("response", 200, 0, page) : page \in SummaryPages}

SummaryInit ==
    /\ IdleResolver
    /\ scoring = NoScoring
    /\ db = Idle
    /\ standardizer = Idle
    /\ yelp = Idle
    /\ helper = Idle
    /\ ingest = Idle
    /\ \E u \in SummaryUrls : summary = [pc |-> "call", url |-> u]

\* fetch_summary(url) against one behaviour of the site.
FetchSummary ==
    /\ summary.pc = "call"
    /\ \E resp \in SummaryResponses :
         summary' = [pc |-> "done", url |-> summary.url, resp |-> resp,
                     out |-> fetch_summary(summary.url, resp)]
    /\ UNCHANGED <<resolver, scoring, db, standardizer, yelp, helper, ingest>>

SummaryNext == FetchSummary

SpecSummary == SummaryInit /\ [][SummaryNext]_vars

(***************************************************************************)
(* The catalog queries, the standardizer and the Yelp lookups on their own *)
(*                                                                         *)
(* Each behaviour is one call of one of the tools.                         *)
(***************************************************************************)

ToolsInit ==
    /\ IdleResolver
    /\ scoring = NoScoring
    /\ summary = NoSummary
    /\ \E tool \in {"db", "standardizer", "yelp", "helper", "ingest"} :
         /\ db = IF tool = "db" THEN [pc |-> "call"] ELSE Idle
         /\ standardizer =
                IF tool = "standardizer" THEN [pc |-> "call"] ELSE Idle
         /\ yelp = IF tool = "yelp" THEN [pc |-> "call"] ELSE Idle
         /\ helper = IF tool = "helper" THEN [pc |-> "call"] ELSE Idle
         /\ ingest = IF tool = "ingest"
                     THEN [pc |-> "load", runs |-> 0, outcome |-> "none",
                           file |-> <<>>, before |-> {}, again |-> FALSE,
                           last |-> None, loaded |-> {}, table |-> {}]
                     ELSE Idle

DbCall(op, c, f, k, min_score, store, out) ==
    [pc |-> "done", op |-> op, catalog |-> c, f |-> f, k |-> k,
     min_score |-> min_score, store |-> store, out |-> out]

\* search_restaurants(query_text, ward, max_dinner_budget, smoking,
\* with_children, category_hint, k) against one catalog and one behaviour of
\* the store.  A store that fails does so before the filters are used: it is
\* met with one set of filters.
SearchRestaurants ==
    /\ db.pc = "call"
    /\ \E c \in DOMAIN Catalogs, f \in Filters, store \in DbStores,
          k \in {-1, 0, 2, 10, PoolLimit + 1} :
         /\ store.kind = "ok" \/ \A field \in DOMAIN f : f[field] = None
         /\ db' = DbCall("search", c, f, k, 0, store,
                         search_restaurants(Catalogs[c], f, k, store))
    /\ UNCHANGED <<resolver, scoring, summary, standardizer, yelp, helper, ingest>>

\* get_restaurant_by_name(name, min_score).
GetRestaurantByName ==
    /\ db.pc = "call"
    /\ \E c \in DOMAIN Catalogs, store \in DbStores,
          m \in {0, 75, 90, 95, 100} :
         db' = DbCall("lookup", c, [field \in {} |-> None], 0, m, store,
                      get_restaurant_by_name(Catalogs[c], m, store))
    /\ UNCHANGED <<resolver, scoring, summary, standardizer, yelp, helper, ingest>>

\* One call of compute_standarized_review_score; the state keeps the locals
\* counts, total_count and weighted_sum and the weights line 61 formed.
Standardize ==
    /\ standardizer.pc = "call"
    /\ \E args \in ReviewArgs :
         standardizer' =
             [pc |-> "done", args |-> args, counts |-> counts(args),
              total_count |-> total_count(args),
              weights |->
                  IF NoReviews(total_count(args)) THEN <<>>
                  ELSE [i \in 1..Len(Sources) |->
                          IF Contributes(args, Sources[i])
                          THEN Some(weight(args, Sources[i])) ELSE None],
              weighted_sum |->
                  IF NoReviews(total_count(args)) THEN None
                  ELSE Some(weighted_sum(args, 1)),
              out |-> compute_standarized_review_score(args)]
    /\ UNCHANGED <<resolver, scoring, summary, db, yelp, helper, ingest>>

\* yelp_business_search(restaurant_name, location) in one environment.
YelpBusinessSearch ==
    /\ yelp.pc = "call"
    /\ \E nm \in {Text.tatsuya, Text.tatsuya_ginza, Text.joes_cafe,
                  Text.tatsuya_bar, Text.sushi_taro, Text.bar, <<>>},
          env \in YelpEnvs(BOOLEAN, Businesses) :
         yelp' = [pc |-> "done", op |-> "search", restaurant_name |-> nm,
                  env |-> env,
                  outcome |-> _search_yelp_business_internal(nm, env)]
    /\ UNCHANGED <<resolver, scoring, summary, db, standardizer, helper, ingest>>

\* yelp_enhance_google_maps_results(restaurant_names, location), line 212.
EnhanceBegin ==
    /\ yelp.pc = "call"
    /\ \E names \in SeqsUpTo({Text.tatsuya, Text.joes_cafe}, MaxBatch),
          key \in BOOLEAN :
         yelp' = [pc |-> "loop", op |-> "batch", restaurant_names |-> names,
                  api_key |-> key, seen |-> <<>>, enhanced_results |-> <<>>]
    /\ UNCHANGED <<resolver, scoring, summary, db, standardizer, helper, ingest>>

\* Lines 214-230: the turn of the loop for the next name, in the environment
\* that name meets.
EnhanceItem ==
    /\ yelp.pc = "loop"
    /\ Len(yelp.enhanced_results) < Len(yelp.restaurant_names)
    /\ \E env \in YelpEnvs({yelp.api_key},
                           {Business(Some(nm), Some(45), Some(120),
                                     Some(Text.url)) :
                               nm \in {Text.tatsuya, Text.sushi_taro}}) :
         LET restaurant_name ==
                 yelp.restaurant_names[Len(yelp.enhanced_results) + 1]
         IN  yelp' = [yelp EXCEPT
                         !.seen = Append(@, env),
                         !.enhanced_results =
                             Append(@, EnhanceOne(restaurant_name, env))]
    /\ UNCHANGED <<resolver, scoring, summary, db, standardizer, helper, ingest>>

\* Line 232.
EnhanceReturn ==
    /\ yelp.pc = "loop"
    /\ Len(yelp.enhanced_results) = Len(yelp.restaurant_names)
    /\ yelp' = [yelp EXCEPT !.pc = "done"]
    /\ UNCHANGED <<resolver, scoring, summary, db, standardizer, helper, ingest>>

\* norm_jp(x), and norm_jp of what it returned.
NormJp ==
    /\ helper.pc = "call"
    /\ \E x \in NameForms :
         helper' = [pc |-> "done", op |-> "norm_jp", x |-> x,
                    once |-> norm_jp(x), twice |-> norm_jp(norm_jp(x))]
    /\ UNCHANGED <<resolver, scoring, summary, db, standardizer, yelp, ingest>>

\* score_candidate(c, name, address) for a rated candidate named x and the
\* query y, and for the same candidate renamed y and the query x; the state
\* keeps the local n_sim of each call.
ScoreNames ==
    /\ helper.pc = "call"
    /\ \E x \in NameForms, y \in NameForms,
          rating \in {Some((30 * Unit) \div 10), Some((35 * Unit) \div 10)} :
         helper' = [pc |-> "done", op |-> "score_candidate", x |-> x, y |-> y,
                    rating |-> rating,
                    norm_candidate |-> norm_jp(x), norm_search |-> norm_jp(y),
                    n_sim |-> NameSimilarity(x, y),
                    out |-> score_candidate([name |-> x, rating |-> rating], y),
                    n_sim_back |-> NameSimilarity(y, x),
                    out_back |->
                        score_candidate([name |-> y, rating |-> rating], x)]
    /\ UNCHANGED <<resolver, scoring, summary, db, standardizer, yelp, ingest>>

\* _goodness(vec_score, star_rating, review_count), and the same call with
\* another vec_score; NULL columns arrive as None.
Goodness ==
    /\ helper.pc = "call"
    /\ \E s \in {None, Some(0), Some(25), Some(50), Some(100)},
          s_other \in {Some(0), Some(25), Some(50), Some(100)},
          r \in {None, Some(0), Some(10), Some(30), Some(35), Some(45), Some(50)},
          n \in {None, Some(0), Some(1), Some(30), Some(1000)} :
         helper' = [pc |-> "done", op |-> "_goodness", s |-> s, s_other |-> s_other,
                    r |-> r, n |-> n,
                    out |-> _goodness(s, r, n),
                    out_other |-> _goodness(s_other, r, n)]
    /\ UNCHANGED <<resolver, scoring, summary, db, standardizer, yelp, ingest>>

\* One run of load_csv_to_db on the table as the runs before left it.  A run
\* that raises (a file without the Page_URL column, a statement the database
\* rejects) leaves the with block of line 138 before line 174 and nothing of
\* it is committed.
LoadCsv ==
    /\ ingest.pc = "load"
    /\ ingest.runs < MaxLoads
    /\ \E file \in CsvFiles, outcome \in {"commit", "raise"} :
         ingest' =
             [pc |-> "load", runs |-> ingest.runs + 1, outcome |-> outcome,
              file |-> file, before |-> ingest.table,
              again |-> ingest.last = Some(file),
              last |-> IF outcome = "commit" THEN Some(file) ELSE ingest.last,
              loaded |-> IF outcome = "commit"
                         THEN ingest.loaded
                              \cup {Strip(file[i].Page_URL) : i \in DOMAIN file}
                         ELSE ingest.loaded,
              table |-> IF outcome = "commit"
                        THEN load_csv_to_db(ingest.table, file, ingest.runs + 1)
                        ELSE ingest.table]
    /\ UNCHANGED <<resolver, scoring, summary, db, standardizer, yelp, helper>>

ToolsNext ==
    \/ SearchRestaurants
    \/ GetRestaurantByName
    \/ Standardize
    \/ YelpBusinessSearch
    \/ EnhanceBegin
    \/ EnhanceItem
    \/ EnhanceReturn
    \/ NormJp
    \/ ScoreNames
    \/ Goodness
    \/ LoadCsv

SpecTools == ToolsInit /\ [][ToolsNext]_vars

(***************************************************************************)
(* Properties of resolve_entity                                            *)
(***************************************************************************)

Done == pc = "done"

\* The ResolveOut of a finished call.
Out == result[1]

Statuses == {"ok", "ambiguous", "not_found", "error"}

\* The call went through the terminal decision of lines 190-196.
Decided == Done /\ Out.status \in {"ok", "ambiguous"}

IsDescending(cs) ==
    \A i \in 1..Len(cs) : \A j \in i..Len(cs) : cs[i].score >= cs[j].score

\* C1: a call that reaches the terminal decision with the adopted list cands
\* and the final confidence conf returns ok exactly when conf >= 0.7, and then
\* best_url is the url of the first (highest-scoring) candidate; otherwise it
\* returns ambiguous with best_url None.  Either way the candidates returned
\* are the first min(3, n) of the list, which is in descending score order.
\* In every result best_url is set only with status ok.
C1_TerminalDecision ==
    Done =>
      /\ (cands # <<>> /\ conf # None /\ raised = None) =>
           /\ Out.status = (IF conf[1] >= OkThreshold THEN "ok" ELSE "ambiguous")
           /\ Out.status = "ok" => Out.best_url = Some(cands[1].url)
           /\ Out.status = "ambiguous" => Out.best_url = None
           /\ IsDescending(cands)
           /\ Len(Out.candidates) = Min(3, Len(cands))
           /\ \A i \in 1..Len(Out.candidates) : Out.candidates[i] = cands[i]
           /\ Out.confidence = conf[1]
      /\ Out.best_url # None => Out.status = "ok"

\* A list of four candidates is cut to three in an ok result.
C1_Witness ==
    /\ Decided
    /\ Out.status = "ok"
    /\ Len(cands) > 3
    /\ Len(Out.candidates) = 3

\* The first attempt was made with a non-empty area hint, found candidates
\* and its confidence is below limit.
FirstBelow(limit) ==
    /\ Len(calls) >= 1
    /\ Truthy(calls[1].hint)
    /\ calls[1].found > 0
    /\ first # None
    /\ first[1].conf < limit

SecondSearchWithoutHint ==
    /\ Len(calls) = 2
    /\ calls[2].name = calls[1].name
    /\ calls[2].hint = None

C3_RetryBoundAndOrder ==
    /\ Len(calls) <= 2
    /\ Len(calls) = 2 =>
         /\ calls[2].conf_known
         /\ first # None
         /\ calls[2].hint = None
         /\ area_hint # None

C3_Witness ==
    /\ Len(calls) = 2
    /\ calls[1].hint # None
    /\ calls[2].hint = None

\* The calibration formula on the two best scores of a descending list.
Calibrated(cs) ==
    LET s1 == cs[1].score
        s2 == IF Len(cs) >= 2 THEN cs[2].score ELSE 0
        m == IF s1 - s2 > 0 THEN s1 - s2 ELSE 0
        v == (s1 + m) \div 2
    IN  IF v > ConfCap THEN ConfCap ELSE v

\* C4: the confidence returned with the adopted list equals
\* min(0.95, 0.5*s1 + 0.5*max(0, s1 - s2)) for the two best scores s1, s2 of
\* that list (s2 = 0 for a single candidate), and the confidence of every
\* result, whatever its status, lies in [0, 0.95].
C4_ConfidenceCalibration ==
    Done =>
      /\ Out.confidence >= 0
      /\ Out.confidence <= (95 * Unit) \div 100
      /\ Decided =>
           /\ IsDescending(cands)
           /\ Out.confidence = Calibrated(cands)

\* A lone perfect candidate: 0.5*1.0 + 0.5*1.0 is capped at 0.95.
C4_Witness ==
    /\ Decided
    /\ Len(cands) = 1
    /\ cands[1].score = Unit
    /\ Out.confidence = (95 * Unit) \div 100

TopTwoTied == Len(cands) >= 2 /\ cands[1].score = cands[2].score

RunnerUp == IF Len(cands) >= 2 THEN cands[2].score ELSE 0

\* C5: when the two best scores of the adopted list are tied, the confidence
\* is 0.5*s1 and the status ambiguous; status ok is returned only when the
\* best score exceeds the runner-up's (0 for a lone candidate) by >= 0.4.
C5_TieIsAmbiguous ==
    Decided =>
      /\ TopTwoTied =>
           /\ Out.confidence = cands[1].score \div 2
           /\ Out.status = "ambiguous"
      /\ Out.status = "ok" => cands[1].score - RunnerUp >= (4 * Unit) \div 10

\* Two perfect candidates tie: confidence 0.5, ambiguous.
C5_Witness ==
    /\ Decided
    /\ TopTwoTied
    /\ cands[1].score = Unit
    /\ Out.status = "ambiguous"

\* C7: a search that brings no candidates (the request failing, a non-200
\* status, a parsing failure, a page without listings) returns the empty list,
\* and resolve_entity then returns not_found with best_url None, no
\* candidates and confidence 0.
C7_EmptySearchIsNotFound ==
    /\ \A i \in 1..Len(calls) : calls[i].outcome # "page" => calls[i].found = 0
    /\ (Len(calls) >= 1 /\ calls[1].found = 0) =>
         /\ Done
         /\ Out.status = "not_found"
         /\ Out.best_url = None
         /\ Out.candidates = <<>>
         /\ Out.confidence = 0

C7_Witness ==
    /\ Done
    /\ Len(calls) = 1
    /\ calls[1].outcome = "timeout"
    /\ Out.status = "not_found"

TransientFailure(i) == calls[i].outcome \in {"timeout", "status", "parse_error"}

\* C8 as claimed: a search that failed transiently is either retried through
\* the area-hint-drop fallback or the call returns status error; it does not
\* end in not_found or ambiguous.
C8_FailureIsNotNoMatch ==
    Done =>
      \A i \in 1..Len(calls) :
         TransientFailure(i) =>
           \/ Out.status = "error"
           \/ (i < Len(calls) /\ Out.status \notin {"not_found", "ambiguous"})

\* C9: every finished call has a result with one of the four statuses; when
\* an exception occurred in the call the result is error with best_url None,
\* no candidates, confidence 0 and a reason of at most 300 characters.
C9_NeverRaises ==
    Done =>
      /\ result # None
      /\ Out.status \in Statuses
      /\ raised # None =>
           /\ Out.status = "error"
           /\ Out.best_url = None
           /\ Out.candidates = <<>>
           /\ Out.confidence = 0
           /\ Out.provenance.error <= 300
           /\ Out.provenance.error <= raised[1]

\* An exception whose message is longer than 300 characters.
C9_Witness ==
    /\ Done
    /\ raised # None
    /\ raised[1] > 300
    /\ Out.status = "error"
(***************************************************************************)
(* Properties of score_candidate                                           *)
(***************************************************************************)

Scored == scoring.pc = "scored"

\* The name-similarity tiers.
Tiers ==
    {Unit, (9 * Unit) \div 10, (7 * Unit) \div 10, (6 * Unit) \div 10,
     (3 * Unit) \div 10, 0}
    \cup {t \in ((4 * Unit) \div 10)..((7 * Unit) \div 10) : TRUE}

ThreeTenths == (3 * Unit) \div 10

\* The score 0.7 * tier + bonus of a candidate with an on-page rating.
ExpectedScore(c, q) ==
    (7 * NameSimilarity(c.name, q)) \div 10
    + (IF c.rating[1] >= (34 * Unit) \div 10 THEN ThreeTenths ELSE 0)

ReturnsExpected(c, q, out) ==
    ~out.raised =>
      /\ c.rating # None
      /\ NameSimilarity(c.name, q) \in Tiers
      /\ out.score = ExpectedScore(c, q)
      /\ out.score >= 0
      /\ out.score <= Unit

Fetched == summary.pc = "done"

AllFieldsNone(out) ==
    /\ out.rating = None
    /\ out.review_count = None
    /\ out.price_dinner = None
    /\ out.price_lunch = None
    /\ out.last_review_date = None

\* A rating, or a review count, can be extracted from the page.
HasRating(page) == page.node # None /\ FloatParses(page.node[1])
HasReviewCount(page) == page.rc # None /\ \E i \in 1..Len(page.rc[1]) : IsDigit(page.rc[1][i])

\* C10: fetch_summary always returns a SummaryOut.  An exception or a
\* non-200 response gives error with every extracted field None and, for an
\* exception, a reason of at most 300 characters; a 200 page with neither a
\* rating nor a review count gives changed with both None; every other 200
\* page gives ok, so that an ok result has a rating or a review count.
C10_SummaryStatus ==
    Fetched =>
      LET resp == summary.resp
          out == summary.out
      IN  /\ out.status \in {"ok", "changed", "error"}
          /\ (resp.kind = "exception" \/ resp.code # 200) =>
               /\ out.status = "error"
               /\ AllFieldsNone(out)
          /\ resp.kind = "exception" => out.provenance.error <= 300
          /\ (resp.kind = "response" /\ resp.code = 200) =>
               IF ~HasRating(resp.page) /\ ~HasReviewCount(resp.page)
               THEN /\ out.status = "changed"
                    /\ out.rating = None
                    /\ out.review_count = None
               ELSE out.status = "ok"
          /\ out.status = "ok" => (out.rating # None \/ out.review_count # None)

\* A 200 page with a review count and an unparsable rating is ok.
C10_Witness ==
    /\ Fetched
    /\ summary.resp.code = 200
    /\ summary.resp.kind = "response"
    /\ summary.resp.page.node = Some(<<"-">>)
    /\ summary.out.status = "ok"
    /\ summary.out.rating = None
    /\ summary.out.review_count = Some(12)

(***************************************************************************)
(* Properties of the catalog queries                                       *)
(***************************************************************************)

Searched == db.pc = "done" /\ db.op = "search"
SearchedOk == Searched /\ db.out.status = "ok"
LookedUp == db.pc = "done" /\ db.op = "lookup"

Returned == db.out.results[1]

\* The embedded records of the queried catalog.
Embedded == {r \in Range(Catalogs[db.catalog]) : r.embedded}

RecordOf(id) == CHOOSE r \in Embedded : r.restaurant_id = id

ReturnedIds == {Returned[i].restaurant_id : i \in 1..Len(Returned)}

EqualsFilter(field, filter) == filter = None \/ field = filter

\* Every non-null filter holds of the record as the claim words it: the
\* record has a budget_dinner_max and it does not exceed the ceiling, and
\* some category contains the hint.
SatisfiesAsWorded(r, f) ==
    /\ EqualsFilter(r.ward, f.ward)
    /\ \/ f.max_dinner_budget = None
       \/ /\ r.budget_dinner_max # None
          /\ r.budget_dinner_max[1] <= f.max_dinner_budget[1]
    /\ EqualsFilter(r.smoking, f.smoking)
    /\ EqualsFilter(r.with_children, f.with_children)
    /\ \/ f.category_hint = None
       \/ /\ r.categories # None
          /\ \E i \in 1..Len(r.categories[1]) :
               IsSubstr(f.category_hint[1], r.categories[1][i])

\* The same with the two filters as the query applies them: a record without
\* a budget_dinner_max passes the ceiling, and a category matches the hint
\* without regard to case, % and _ in the hint being wildcards.
Satisfies(r, f) ==
    /\ EqualsFilter(r.ward, f.ward)
    /\ \/ f.max_dinner_budget = None
       \/ r.budget_dinner_max = None
       \/ r.budget_dinner_max[1] <= f.max_dinner_budget[1]
    /\ EqualsFilter(r.smoking, f.smoking)
    /\ EqualsFilter(r.with_children, f.with_children)
    /\ \/ f.category_hint = None
       \/ /\ r.categories # None
          /\ \E i \in 1..Len(r.categories[1]) :
               ILike(r.categories[1][i],
                     <<"%">> \o f.category_hint[1] \o <<"%">>)

HasRoom(matching) ==
    db.k >= Cardinality(matching) /\ Cardinality(matching) <= PoolLimit

NoCategoryMatches ==
    /\ db.f.category_hint # None
    /\ \A r \in Embedded :
         r.categories = None
         \/ \A i \in 1..Len(r.categories[1]) :
              ~ILike(r.categories[1][i],
                     <<"%">> \o db.f.category_hint[1] \o <<"%">>)

IsNonIncreasing(rows) ==
    \A i \in 1..(Len(rows) - 1) :
        RatLe(rows[i + 1].score_goodness, rows[i].score_goodness)

\* The record is among the PoolLimit most similar of the records that pass
\* the filters: fewer than PoolLimit of them are strictly more similar.
InPool(row) ==
    Cardinality({r \in Embedded :
                    Satisfies(r, db.f) /\ r.vec_score > row.score_semantic})
        < PoolLimit

SortedFromPool ==
    /\ IsNonIncreasing(Returned)
    /\ \A i \in 1..Len(Returned) : InPool(Returned[i])

C13_CatalogFailureIsError ==
    (db.pc = "done" /\ db.store.kind = "error") =>
        /\ db.out.status = "error"
        /\ db.out.reason # None
        /\ db.out.reason[1] <= DbReasonLimit
        /\ db.out.reason[1] <= db.store.msg_len
        /\ db.out.results = None
        /\ db.out.restaurant = None

\* A lookup that failed with a message longer than the limit.
C13_Witness ==
    /\ LookedUp
    /\ db.store.kind = "error"
    /\ db.store.msg_len > DbReasonLimit
    /\ db.out.status = "error"

Nearest == {r \in Embedded : \A q \in Embedded : q.vec_score <= r.vec_score}

Standardized == standardizer.pc = "done"

Args == standardizer.args

\* A count as given: a missing count is no review.
Given(count) == IF count = None THEN 0 ELSE count[1]

GivenTotal ==
    Given(Args.count.google) + Given(Args.count.tabelog)
        + Given(Args.count.yelp)

\* C15: compute_standarized_review_score returns null, not a number, for
\* every input whose review counts over the three providers total 0,
\* whatever the scores are.
C15_NoReviewsIsNull ==
    (Standardized /\ GivenTotal = 0) => standardizer.out = None

\* A call with a score for every provider and no review at all.
C15_Witness ==
    /\ Standardized
    /\ GivenTotal = 0
    /\ \A source \in DOMAIN Args.score : Args.score[source] # None
    /\ Args.count.yelp = Some(0)
    /\ standardizer.out = None

RECURSIVE RatSum(_)
RatSum(ws) ==
    IF ws = <<>> THEN Rat(0, 1)
    ELSE RatAdd(IF Head(ws) = None THEN Rat(0, 1) ELSE Head(ws)[1],
                RatSum(Tail(ws)))

\* The arguments with the count of every provider that has no score removed.
WithoutCountsOfNullScores(args) ==
    [args EXCEPT
        !.count = [source \in DOMAIN @ |->
                      IF args.score[source] = None THEN None ELSE @[source]]]

\* C16: a provider with a null score or a zero count is left out of the
\* weighted sum and of the weight normalization: whenever some provider
\* contributes, the weights of the providers that contribute sum to 1, and
\* the count given for a provider with a null score does not change the
\* output.
C16_WeightsOfContributorsSumToOne ==
    (/\ Standardized
     /\ \E i \in 1..Len(standardizer.weights) : standardizer.weights[i] # None)
        => /\ RatSum(standardizer.weights) = Rat(1, 1)
           /\ standardizer.out
                  = compute_standarized_review_score(WithoutCountsOfNullScores(Args))

Populated(score, count) == score # None /\ Given(count) > 0
Unpopulated(score, count) == score = None /\ Given(count) = 0

ProviderPairs ==
    [i \in 1..Len(Sources) |->
        [source |-> Sources[i], score |-> Args.score[Sources[i]],
         count |-> Args.count[Sources[i]]]]

IsPopulated(i) == Populated(ProviderPairs[i].score, ProviderPairs[i].count)
IsUnpopulated(i) == Unpopulated(ProviderPairs[i].score, ProviderPairs[i].count)

\* (score - providerMean) / providerSigma of a populated provider.
ProviderZ(i) ==
    RatDiv(RatSub(Rat(ProviderPairs[i].score[1], 10),
                  mu[ProviderPairs[i].source]),
           sigma[ProviderPairs[i].source])

Affine(w) == RatAdd(Rat(7, 2), RatMul(Rat(1, 2), w))

\* The z-scores of the populated providers averaged with their counts as
\* weights.
RECURSIVE CountTimesZ(_)
CountTimesZ(i) ==
    IF i = 0 THEN Rat(0, 1)
    ELSE RatAdd(IF IsPopulated(i)
                THEN RatMul(Rat(Given(ProviderPairs[i].count), 1), ProviderZ(i))
                ELSE Rat(0, 1),
                CountTimesZ(i - 1))

\* C17: a number returned is 3.5 + 0.5 * weighted_sum, unclamped; when every
\* provider has either both a score and reviews or neither, it is 3.5 plus
\* half the count-weighted mean of their z-scores, and with one such provider
\* it is 3.5 + 0.5 * (score - providerMean) / providerSigma.
C17_AffineUnclamped ==
    (Standardized /\ standardizer.out # None) =>
        /\ standardizer.out[1] = Affine(standardizer.weighted_sum[1])
        /\ (\A i \in 1..3 : IsPopulated(i) \/ IsUnpopulated(i)) =>
               standardizer.out[1]
                   = Affine(RatDiv(CountTimesZ(3), Rat(GivenTotal, 1)))
        /\ \A i \in 1..3 :
               (IsPopulated(i) /\ \A j \in 1..3 : j # i => IsUnpopulated(j))
                   => standardizer.out[1] = Affine(ProviderZ(i))

\* A call with one populated provider whose result is above 5.
C17_Witness ==
    /\ Standardized
    /\ standardizer.out # None
    /\ IsPopulated(2) /\ IsUnpopulated(1) /\ IsUnpopulated(3)
    /\ ~RatLe(standardizer.out[1], Rat(5, 1))

(***************************************************************************)
(* Properties of the Yelp lookups                                          *)
(***************************************************************************)

YelpSearched == yelp.pc = "done" /\ yelp.op = "search"
YelpReturned == YelpSearched /\ yelp.outcome.kind = "return"
Enhanced == yelp.pc = "done" /\ yelp.op = "batch"

AllNull(out) ==
    out.yelp_rating = None /\ out.yelp_review_count = None
    /\ out.yelp_url = None

Carries(out, business) ==
    /\ out.yelp_rating = business.rating
    /\ out.yelp_review_count = business.review_count
    /\ out.yelp_url = business.url

\* Similarity of the query name and the name of the business returned.
ReturnedSimilarity ==
    calculate_name_similarity(yelp.restaurant_name,
                              yelp.env.businesses[1].name[1])

\* C18: a result of the Yelp business search carries the rating, review count
\* and url of the returned business only if the similarity of the query name
\* and the business name is >= 0.7, and then it carries all that the business
\* has; when the similarity is below 0.7, or no business is returned, the
\* three are null together.
C18_ValidatedOrAllNull ==
    YelpReturned =>
        IF yelp.env.businesses = <<>>
        THEN AllNull(yelp.outcome.value)
        ELSE IF RatLe(Rat(7, 10), ReturnedSimilarity)
        THEN Carries(yelp.outcome.value, yelp.env.businesses[1])
        ELSE AllNull(yelp.outcome.value)

\* A search whose business has a rating, a count and a url and a name that
\* resembles the query, but less than 0.7: the result has none of the three.
C18_Witness ==
    /\ YelpReturned
    /\ yelp.env.businesses # <<>>
    /\ yelp.env.businesses[1].rating # None
    /\ yelp.env.businesses[1].review_count # None
    /\ yelp.env.businesses[1].url # None
    /\ ~RatLe(ReturnedSimilarity, Rat(0, 1))
    /\ ~RatLe(Rat(7, 10), ReturnedSimilarity)
    /\ AllNull(yelp.outcome.value)

\* A failed lookup: the request raised, the status was not 200, or the body
\* could not be read.
Transient(env) ==
    env.kind = "exception" \/ env.status_code # 200 \/ env.kind = "malformed"

\* A lookup that found no match: no business, or one whose name is not
\* reliable.
NoMatch(restaurant_name, env) ==
    /\ ~Transient(env)
    /\ \/ env.businesses = <<>>
       \/ ~is_reliable_yelp_match(restaurant_name, env.businesses[1].name[1])

\* The batch has one entry per name, in order, and each entry is what the
\* name and its own lookup give, whatever happened to the other names.
OneEntryPerName ==
    /\ Len(yelp.enhanced_results) = Len(yelp.restaurant_names)
    /\ \A i \in 1..Len(yelp.restaurant_names) :
         /\ yelp.enhanced_results[i]
                = EnhanceOne(yelp.restaurant_names[i], yelp.seen[i])
         /\ yelp.enhanced_results[i].name = yelp.restaurant_names[i]
            \/ /\ ~Transient(yelp.seen[i])
               /\ ~NoMatch(yelp.restaurant_names[i], yelp.seen[i])

\* An entry of a failed lookup differs from an entry of a lookup without
\* match for the same name.
StatusTellsFailureFromNoMatch ==
    \A i, j \in 1..Len(yelp.restaurant_names) :
        (/\ yelp.restaurant_names[i] = yelp.restaurant_names[j]
         /\ yelp.api_key
         /\ Transient(yelp.seen[i])
         /\ NoMatch(yelp.restaurant_names[j], yelp.seen[j]))
            => yelp.enhanced_results[i] # yelp.enhanced_results[j]

\* C19: yelp_enhance_google_maps_results returns one entry per input name in
\* input order; a failure, a non-200 response or an unreliable match for one
\* name neither aborts the batch nor changes the entries of the others; and
\* each entry has a status that tells a failed lookup from a no-match.
C19_BatchIsolation ==
    Enhanced => OneEntryPerName /\ StatusTellsFailureFromNoMatch

\* C20: yelp_business_search does not raise for a transient condition: on a
\* non-200 response, a timeout or a malformed body it returns a result whose
\* rating, count and url are null.
C20_TransientNeverRaises ==
    (YelpSearched /\ yelp.env.api_key /\ Transient(yelp.env)) =>
        /\ yelp.outcome.kind = "return"
        /\ AllNull(yelp.outcome.value)

(***************************************************************************)
(* Properties of norm_jp and of the name tier of score_candidate           *)
(***************************************************************************)

Normalized == helper.pc = "done" /\ helper.op = "norm_jp"

NamesScored == helper.pc = "done" /\ helper.op = "score_candidate"

\* C21: norm_jp is idempotent, norm_jp(norm_jp(x)) = norm_jp(x), also for a
\* string in which removing one branch suffix makes another one appear.
C21_NormJpIdempotent ==
    Normalized => helper.twice = helper.once

\* The characters two spellings of one name may differ in: whitespace and the
\* round, full-width round, square and lenticular brackets.
SpacingAndBrackets ==
    {" ", "IDSP", "(", ")", "FW(", "FW)", "[", "]", "LENT(", "LENT)"}

Bare(x) == SelectSeq(x, LAMBDA ch : ch \notin SpacingAndBrackets)

BranchSuffixes ==
    {<<"HON", "TEN">>, <<"BETSU", "KAN">>, <<"NISHI", "KUCHI", "TEN">>,
     <<"HIGASHI", "KUCHI", "TEN">>}

\* x and y are spellings of one name: apart from spacing and brackets they are
\* the same characters, or one of them has one branch suffix more at its end.
SuperficiallyEqual(x, y) ==
    \/ Bare(x) = Bare(y)
    \/ \E t \in BranchSuffixes : Bare(y) = Bare(x) \o t \/ Bare(x) = Bare(y) \o t

SharedChars(s, t) == Range(s) \cap Range(t)

\* The tier the rules give, the first rule that applies deciding.
FirstRuleTier(c, s) ==
    IF c = s THEN Unit
    ELSE IF IsSubstr(c, s) \/ IsSubstr(s, c) THEN (9 * Unit) \div 10
    ELSE IF Len(c) >= 4 /\ Len(s) >= 4 /\ Take(c, 4) = Take(s, 4)
         THEN (7 * Unit) \div 10
    ELSE IF \E w \in Range(Split(s)) : Len(w) > 2 /\ IsSubstr(w, c)
         THEN (6 * Unit) \div 10
    ELSE IF SharedChars(c, s) # {} THEN (3 * Unit) \div 10
    ELSE TermOverlapTier(c, s)

\* C25: the name tier of score_candidate is the value of the first rule that
\* applies, in the order exact match 1.0, substring either way 0.9, shared
\* prefix of four characters 0.7, token overlap 0.6, character overlap 0.3,
\* term-overlap fallback 0.4 plus a proportional bonus, no overlap 0.0.
C25_TierIsFirstRuleThatApplies ==
    NamesScored =>
        helper.n_sim = FirstRuleTier(helper.norm_candidate, helper.norm_search)

\* C28: when a non-empty candidate name and a non-empty query have no
\* character in common after normalization, also when one of them normalizes
\* to the empty string, the name tier is 0.0 and the score is at most the
\* rating bonus of 0.3.
C28_NoCommonCharacterScoresZero ==
    (/\ NamesScored
     /\ helper.x # <<>>
     /\ helper.y # <<>>
     /\ SharedChars(helper.norm_candidate, helper.norm_search) = {}) =>
        /\ helper.n_sim = 0
        /\ helper.out.score <= (3 * Unit) \div 10

(***************************************************************************)
(* Properties of the retry and of unrated candidates in resolve_entity     *)
(***************************************************************************)

\* C24: the retry's list and confidence replace those of the first attempt
\* only if the retry returned candidates and its confidence is strictly
\* greater; otherwise the first attempt's list and confidence are kept.  So
\* the confidence of the result is never lower than the first attempt's, and
\* the candidates returned are the head of the one list that was kept.
C24_RetryAdoptedOnlyIfBetter ==
    (Done /\ first # None) =>
        /\ \/ cands = first[1].cands /\ conf = Some(first[1].conf)
           \/ /\ Len(calls) = 2
              /\ calls[2].found > 0
              /\ conf[1] > first[1].conf
        /\ Out.confidence >= first[1].conf
        /\ Out.candidates = Take(cands, CandLimit)

\* C27: a candidate without an on-page rating is scored without the rating
\* bonus, score = 0.7 * tier, and a call whose search returned such a
\* candidate ends in status ok or ambiguous, not in status error.
C27_UnratedCandidateIsScored ==
    (Done /\ \E i \in DOMAIN cands : cands[i].rating = None) =>
        /\ Out.status \in {"ok", "ambiguous"}
        /\ \A i \in DOMAIN cands :
               cands[i].rating = None =>
                   cands[i].score = (7 * NameSimilarity(cands[i].name, name)) \div 10

(***************************************************************************)
(* Properties of _goodness                                                 *)
(***************************************************************************)

GoodnessComputed == helper.pc = "done" /\ helper.op = "_goodness"

\* The number a column holds, NULL counting as 0.
Num(opt) == IF opt = None THEN 0 ELSE opt[1]

\* clamp01((shrunk - 3.0) / 1.5) for shrunk = (n*r + 30*3.5) / (n + 30), r in
\* tenths: with shrunk = num / den it is 2 * (num - 3 * den) / (3 * den).
RatingComponent(r, n) ==
    LET num == n * r + 30 * 35
        den == 10 * (n + 30)
    IN  IF num <= 3 * den THEN Rat(0, 1)
        ELSE IF 2 * (num - 3 * den) >= 3 * den THEN Rat(1, 1)
        ELSE Rat(2 * (num - 3 * den), 3 * den)

\* C26: _goodness(s, r, n) is 0.6*s + 0.4*clamp01((shrunk - 3.0)/1.5) with
\* shrunk = (n*r + 30*3.5)/(n + 30); it does not decrease when s grows with
\* r and n fixed; and its rating component lies in [0, 1].
C26_Goodness ==
    GoodnessComputed =>
        LET similarity == Rat(6 * Num(helper.s), 1000)
        IN  /\ helper.out
                   = RatAdd(similarity,
                            RatMul(Rat(4, 10),
                                   RatingComponent(Num(helper.r), Num(helper.n))))
            /\ Num(helper.s) <= Num(helper.s_other)
                   => RatLe(helper.out, helper.out_other)
            /\ RatLe(similarity, helper.out)
            /\ RatLe(helper.out, RatAdd(similarity, Rat(4, 10)))

\* A restaurant rated 5.0 by 1000 reviews, whose shrunk rating exceeds 4.5:
\* the rating component is capped at 1 and the greater similarity gives the
\* greater goodness.
C26_Witness ==
    /\ GoodnessComputed
    /\ helper.r = Some(50)
    /\ helper.n = Some(1000)
    /\ helper.s = Some(25)
    /\ helper.s_other = Some(50)
    /\ helper.out = Rat(55, 100)
    /\ helper.out_other = Rat(70, 100)

(***************************************************************************)
(* Properties of load_csv_to_db                                            *)
(***************************************************************************)

Loaded == ingest.pc = "load" /\ ingest.runs > 0

\* The rows of a table without their timestamps.
Untimed(table) ==
    {[restaurant_id |-> t.restaurant_id, name |-> t.name,
      page_url |-> t.page_url, tel |-> t.tel] : t \in table}

\* C23: the id is a function of the source url alone, so after any sequence
\* of load_csv_to_db runs the table holds exactly one record for each url
\* loaded, and loading the rows just loaded a second time leaves the ids and
\* the stored values, timestamps aside, as they were.
C23_ReingestionIdempotent ==
    Loaded =>
        /\ \A u \in ingest.loaded :
               Cardinality({t \in ingest.table : t.page_url = u}) = 1
        /\ Cardinality(ingest.table) = Cardinality(ingest.loaded)
        /\ \A t, u \in ingest.table :
               t.restaurant_id = u.restaurant_id <=> t.page_url = u.page_url
        /\ (ingest.again /\ ingest.outcome = "commit") =>
               Untimed(ingest.table) = Untimed(ingest.before)

\* A file with two listings of one url, the second padded, loaded twice: the
\* table holds the one record the first load left, with a new timestamp.
C23_Witness ==
    /\ Loaded
    /\ ingest.again
    /\ ingest.outcome = "commit"
    /\ Len(ingest.file) = 2
    /\ ingest.file[1].Page_URL # ingest.file[2].Page_URL
    /\ Cardinality(ingest.table) = 1
    /\ ingest.table # ingest.before
    /\ \E t \in ingest.table : t.name = <<"b">> /\ t.tel = <<"1">>

(***************************************************************************)
(* Properties of the Yelp match on names without a common character        *)
(***************************************************************************)

\* C29: is_reliable_yelp_match never accepts two non-empty names that share
\* no character: their similarity is below 0.7 and the result's rating, count
\* and url are null, also when both names are only a generic suffix word that
\* normalize_restaurant_name strips.
C29_NoSharedCharacterNeverAccepted ==
    (/\ YelpReturned
     /\ yelp.env.api_key
     /\ yelp.env.businesses # <<>>
     /\ yelp.env.businesses[1].name[1] # None
     /\ yelp.restaurant_name # <<>>
     /\ yelp.env.businesses[1].name[1][1] # <<>>
     /\ SharedChars(yelp.restaurant_name, yelp.env.businesses[1].name[1][1]) = {}) =>
        /\ ~RatLe(Rat(7, 10), ReturnedSimilarity)
        /\ ~is_reliable_yelp_match(yelp.restaurant_name,
                                   yelp.env.businesses[1].name[1])
        /\ AllNull(yelp.outcome.value)

(***************************************************************************)
(* Properties of the standardized score without a contributing provider    *)
(***************************************************************************)

\* C30: compute_standarized_review_score returns a number only if at least
\* one provider has both a score and a non-zero count; when no provider
\* contributes, as when every score is null while some count is positive, it
\* returns null and not the midpoint 3.5.
C30_NullWithoutContributor ==
    (Standardized /\ \A i \in 1..3 : ~IsPopulated(i)) => standardizer.out = None

====
